---- MODULE Spec2Model ----
(***************************************************************************)
(* Model of the npm-scan dependency-snapshot cache: the manifest step      *)
(* (step_02_get_packagesjson.get_packagesjson) and the lock step           *)
(* (step_03_get_package_lock.get_package_lock) over the content-addressed  *)
(* document store and the JSON indices of cache_utils.                     *)
(*                                                                         *)
(* A JSON object is a sequence of <<key, value>> pairs (a Python dict with *)
(* its insertion order).  Strings are TLA+ strings, joined with \o as the  *)
(* f-strings of the source join them.                                      *)
(***************************************************************************)
EXTENDS Integers, Sequences, FiniteSets, TLC

\* ------------------------------------------------------------------ bounds
\* Number of changes the environment makes to upstream content or to the cache files.
MaxEdits == 1

\* ------------------------------------------------------- generic helpers
\* Python's None where a JSON object is expected: a marker no object of the model equals.
None == << <<"None", "None">> >>

Put(f, k, v) == (k :> v) @@ f

Empty == <<>>

\* str.strip of a text kept as the sequence of its pieces.
Strip(s) ==
    LET kept == {i \in 1..Len(s) : s[i] # " "}
    IN  IF kept = {} THEN <<>>
        ELSE SubSeq(s, CHOOSE i \in kept : \A j \in kept : i <= j,
                       CHOOSE i \in kept : \A j \in kept : j <= i)

\* str.startswith, on pieces.
StartsWith(s, prefix) == Len(s) >= Len(prefix) /\ SubSeq(s, 1, Len(prefix)) = prefix

\* Incr with the count started over instead of read back.
Incr_reset(f, k) == Put(f, k, 1)

Incr(f, k) == Put(f, k, (IF k \in DOMAIN f THEN f[k] ELSE 0) + 1)

\* --------------------------------------------------------------- cache_utils
PACKAGE_JSON_SUBDIR == "package_json"
PACKAGE_LOCK_SUBDIR == "package_lock"

\* Keys of the JSON objects of the model, in the order sort_keys=True puts them.
SortedKeys == <<"dependencies", "lockfileVersion", "name", "version">>

HasKey(doc, k) == \E i \in 1..Len(doc) : doc[i][1] = k

ValueOf(doc, k) == doc[CHOOSE i \in 1..Len(doc) : doc[i][1] = k][2]

\* Python's == on two dicts: same keys with the same values, in any order.
DictEq(d1, d2) == {d1[i] : i \in 1..Len(d1)} = {d2[i] : i \in 1..Len(d2)}

\* json.dumps(document, sort_keys=True, separators=(",", ":")) of a flat object.
RECURSIVE DumpsFrom(_, _, _)
DumpsFrom(doc, i, first) ==
    IF i > Len(SortedKeys) THEN ""
    ELSE IF HasKey(doc, SortedKeys[i])
         THEN (IF first THEN "" ELSE ",")
              \o "\"" \o SortedKeys[i] \o "\":\"" \o ValueOf(doc, SortedKeys[i]) \o "\""
              \o DumpsFrom(doc, i + 1, FALSE)
         ELSE DumpsFrom(doc, i + 1, first)

canonical_dumps(doc) == "{" \o DumpsFrom(doc, 1, TRUE) \o "}"

\* hashlib.sha256(payload).hexdigest(): the digest is modelled as an injective
\* tag of the payload (no two payloads of the model collide).
signature_for_json(document) == "sha256(" \o canonical_dumps(document) \o ")"

\* The document store of one subdir: signature -> stored content.  A file that
\* is missing or does not decode loads as None.
Corrupt == << <<"corrupt", "corrupt">> >>

load_json_document(store, signature) ==
    IF signature \in DOMAIN store /\ store[signature] # Corrupt
    THEN store[signature] ELSE None

\* save_json_document into a subdir emptied first.
save_json_document_alone(store, signature, document) == (signature :> document)

save_json_document(store, signature, document) == Put(store, signature, document)

build_repo_key(item) == item.id \o "|" \o item.branch \o "|" \o item.path


\* ------------------------------------------------------- repositories, upstream
\* A record of the repository cache: {repository:{id,name}, project:{name}, path,
\* versions:[{branchName}]}, flattened.
Item1 == [id |-> "1", name |-> "RepoA", project |-> "proj",
          path |-> "/src/package.json", branch |-> "main"]

Item2 == [id |-> "2", name |-> "RepoB", project |-> "proj",
          path |-> "/src/package.json", branch |-> "main"]

\* A third record of the repository cache.
Item3 == [id |-> "3", name |-> "RepoC", project |-> "proj",
          path |-> "/src/package.json", branch |-> "main"]

\* What load_repos_cache can return: nothing, or the two repositories.
RepoLists == {<<>>, <<Item1, Item2>>}

RepoKeys == {build_repo_key(Item1), build_repo_key(Item2)}

\* Manifest contents found upstream.  MAr is MA with its keys in another order.
MA == << <<"name", "demo">>, <<"version", "1.0.0">> >>

MAr == << <<"version", "1.0.0">>, <<"name", "demo">> >>

MB == << <<"name", "demo">>, <<"version", "2.0.0">> >>

ManifestContents == {MA, MAr, MB}

\* The lock `npm install --package-lock-only` writes for a manifest.
npm_install(package_content) ==
    << <<"name", ValueOf(package_content, "name")>>,
       <<"version", ValueOf(package_content, "version")>>,
       <<"lockfileVersion", "3">> >>

\* Lock contents found upstream: a hand-kept lock, or the lock npm writes for MA,
\* committed to the repository.  None stands for "no lock file" (HTTP 404).
LA == << <<"name", "demo">>, <<"lockfileVersion", "2">> >>

LockContents == {LA, npm_install(MA)}

\* The remote repositories when the first step runs: byte-identical manifests,
\* no lock file committed.  UpstreamChanges reaches the other contents.
UpstreamAtStart ==
    (build_repo_key(Item1) :> [manifest |-> MA, lock |-> None])
    @@ (build_repo_key(Item2) :> [manifest |-> MA, lock |-> None])

\* Outcomes of one GET of the file fetcher besides the content itself.
FetchErrors == {"HTTPError", "ConnectionError"}

\* Outcomes of one generate_lock_with_npm call.
NpmOutcomes == {"ok", "unavailable", "nonzero", "nolockfile", "timeout"}


\* ------------------------------------------------------------------ state
VARIABLES
    repos,                    \* the repository cache (load_repos_cache)
    upstream,                 \* repo key -> [manifest, lock] held by the remote repository
    package_json_docs,        \* <root>/package_json/<signature>.json
    package_lock_docs,        \* <root>/package_lock/<signature>.json
    packages_cache,           \* packages_cache.json: signature -> [path, repos]
    package_json_repo_index,  \* package_json_repo_index.json: repo key -> metadata
    package_lock_manifest,    \* package_lock_manifest.json, in file order
    package_lock_repo_index,  \* package_lock_repo_index.json: repo key -> metadata
    pc,                       \* "idle", "loop", "done", "fatal" (ClickException), "aborted"
    step,                     \* the step running or last run: 0, 2 or 3
    force,                    \* its --force flag
    idx,                      \* position of the for loop in repos
    manifest,                 \* local of the running step
    repo_index,               \* local of get_packagesjson
    packages_repo_index,      \* local of get_package_lock
    lock_repo_index,          \* local of get_package_lock
    pkg_to_lock,              \* local of get_package_lock
    new_downloads, reused, downloaded, generated, failures,
    fetch_calls,              \* repo key -> outcome of the fetch made for it in this run
    npm_calls,                \* repo key -> what generate_lock_with_npm did for it in
                              \* this run: returned a "lock" or "None", or raised
    settled,                  \* 0, 1 once a run of step 02 has completed, 2 once a run
                              \* of step 03 has completed after it: a first run of both
    clean,                    \* no repository failed in that first run
    baseline,                 \* the indices on disk when the first run completed
    edits                     \* changes the environment has made so far

files == <<package_json_docs, package_lock_docs, packages_cache,
           package_json_repo_index, package_lock_manifest, package_lock_repo_index>>

locals == <<manifest, repo_index, packages_repo_index, lock_repo_index, pkg_to_lock>>

counters == <<new_downloads, reused, downloaded, generated, failures>>

\* State of step 04 (run): its inputs, its locals and what it writes.
VARIABLES
    packages_file,            \* --packages-file: the targets file
    include_all_flag,         \* --include-all as given on the command line
    audit_pc,                 \* "idle", "loop", "done", "fatal" (ClickException)
    targets_idx,              \* local of run
    include_all,              \* local of run: the flag, or set for an empty target index
    pending,                  \* repo keys of the lock repo index the loop has yet to visit
    loaded_lock,              \* lock_content of the last repository audited
    flat_packages,            \* its flat_packages
    evaluations,              \* its evaluations
    rows,                     \* local of run
    audited_repos,            \* local of run
    missing_locks,            \* local of run
    report                    \* the rows of the CSV written by write_report

\* Calls of the helpers of cache_utils on their own.
VARIABLES
    document,                 \* a value handed to signature_for_json
    twin,                     \* another value handed to it
    signatures,               \* what the calls returned
    records,                  \* two records of the repository cache
    repo_keys                 \* their keys, as each step computes them

\* What a cache root can hold besides the files the steps write today.
VARIABLES
    packages_cache_older,         \* entries of packages_cache.json that hold the
                                  \* document itself: signature -> content
    package_lock_manifest_older,  \* entries of package_lock_manifest.json in the
                                  \* shapes of older versions, in file order
    package_lock_cache_pkl,       \* package_lock_cache.pkl: <<signature, content>> pairs
    damage                        \* index file -> what is wrong with it, "" if nothing

older == <<packages_cache_older, package_lock_manifest_older, package_lock_cache_pkl,
           damage>>

pipeline == <<repos, upstream, files, older, pc, step, force, idx, locals, counters,
              fetch_calls, npm_calls, settled, clean, baseline, edits>>

audit == <<packages_file, include_all_flag, audit_pc, targets_idx, include_all,
           pending, loaded_lock, flat_packages, evaluations, rows, audited_repos,
           missing_locks, report>>

\* Calls followed on their own: the fallback generation of one manifest, and
\* step 01 on the repository cache.
VARIABLES
    fallback,                 \* generate_lock_with_npm up to npm: [pc, document,
                              \* package_content, effective, msgs]
    listing                   \* get_repositories: [pc, cache_file, remote, page_size,
                              \* force, requests, batches, aggregated, skip, failed,
                              \* returned, before]

utils == <<document, twin, signatures, records, repo_keys, fallback, listing>>

\* Runs of get_package_lock started side by side on one cache root.
VARIABLES
    runs                      \* run -> its position and its locals: [pc, idx, manifest,
                              \* lock_repo_index, pkg_to_lock, generated]

\* What a step leaves alone.
beyond_pipeline == <<audit, utils, runs>>

\* What an iteration of a loop leaves alone, and a change of the environment.
beyond_loop == <<audit, utils, older, runs>>

beyond_audit == <<pipeline, utils, runs>>

vars == <<pipeline, audit, utils, runs>>

\* ---------------------------------------------------- ordered dicts (file order)
\* package_lock_manifest is iterated, so it keeps the insertion order of a dict:
\* a sequence of <<key, value>> pairs with distinct keys.
DHas(d, k) == \E i \in 1..Len(d) : d[i][1] = k

DGet(d, k) == d[CHOOSE i \in 1..Len(d) : d[i][1] = k][2]

DPut(d, k, v) ==
    IF DHas(d, k)
    THEN [i \in 1..Len(d) |-> IF d[i][1] = k THEN <<k, v>> ELSE d[i]]
    ELSE Append(d, <<k, v>>)

\* ------------------------------------------------------ cache_utils, index files
PACKAGES_MANIFEST_FILE == "packages_cache.json"
PACKAGES_REPO_INDEX_FILE == "package_json_repo_index.json"
PACKAGE_LOCK_MANIFEST_FILE == "package_lock_manifest.json"
PACKAGE_LOCK_REPO_INDEX_FILE == "package_lock_repo_index.json"

IndexFiles == {PACKAGES_MANIFEST_FILE, PACKAGES_REPO_INDEX_FILE,
               PACKAGE_LOCK_MANIFEST_FILE, PACKAGE_LOCK_REPO_INDEX_FILE}

\* What can be wrong with an index file that exists: its text is not JSON
\* ("malformed": json.JSONDecodeError), or it cannot be opened or decoded as
\* UTF-8 ("unreadable": OSError, UnicodeDecodeError).
Damages == {"malformed", "unreadable"}

Intact == [name \in IndexFiles |-> ""]

\* load_index that catches every error of the read.
load_index_raises_nothing(name) == FALSE

\* load_index catches json.JSONDecodeError and nothing else.
load_index_raises(name) == damage[name] = "unreadable"

\* What load_index returns, when it returns: the entries of the file, or {}.
load_index(name, entries) == IF damage[name] = "" THEN entries ELSE Empty

\* save_index overwrites the file.
save_index(name) == [damage EXCEPT ![name] = ""]

\* ------------------------------------------------- step_02_get_packagesjson
\* load_index + load_packages_manifest on entries already in the current shape.
load_packages_manifest(file) ==
    [sig \in DOMAIN file |-> [path |-> file[sig].path, repos |-> file[sig].repos]]

load_repo_index(file) == file

\* requests.HTTPError of raise_for_status: `exc.response` is falsy for every
\* 4xx/5xx response, so the reason never carries the status code.
failure_reason(error) == IF error = "HTTPError" THEN "HTTP error" ELSE error

\* update_manifest_entry that leaves an entry it finds as it is.
update_manifest_entry_keeps(m, signature, repo_key) ==
    IF signature \in DOMAIN m THEN m
    ELSE Put(m, signature,
             [path |-> PACKAGE_JSON_SUBDIR \o "/" \o signature \o ".json",
              repos |-> {repo_key}])

\* sorted(set(...)) of an index entry is kept as the set it stands for.
update_manifest_entry(m, signature, repo_key) ==
    LET entry == IF signature \in DOMAIN m THEN m[signature]
                 ELSE [path |-> PACKAGE_JSON_SUBDIR \o "/" \o signature \o ".json",
                       repos |-> {}]
    IN  Put(m, signature,
            [path |-> PACKAGE_JSON_SUBDIR \o "/" \o signature \o ".json",
             repos |-> entry.repos \cup {repo_key}])

build_repo_metadata(item, signature) ==
    [signature |-> signature, repositoryId |-> item.id, repositoryName |-> item.name,
     project |-> item.project, path |-> item.path, branch |-> item.branch]

\* The reuse test with the force flag the wrong way round.
package_json_reused_inverted(f, repo_key, index) == f /\ repo_key \in DOMAIN index

\* The reuse test without the force flag.
package_json_reused_unforced(f, repo_key, index) == repo_key \in DOMAIN index

\* `if not force and repo_key in repo_index`
package_json_reused(f, repo_key, index) == ~f /\ repo_key \in DOMAIN index

\* load_packages_manifest on a file of an older version: `raw` are the entries
\* that hold the document itself, `entries` those that hold a path and repos.
load_packages_manifest_older(entries, raw) ==
    [sig \in DOMAIN raw |->
        [path |-> PACKAGE_JSON_SUBDIR \o "/" \o sig \o ".json", repos |-> {}]]
    @@ load_packages_manifest(entries)

\* The migration without its save_json_document.
save_json_documents_skipped(store, raw) == store

\* The store after save_json_document of every document of `raw`.
save_json_documents(store, raw) ==
    [sig \in DOMAIN store \cup DOMAIN raw |->
        IF sig \in DOMAIN raw THEN raw[sig] ELSE store[sig]]

ResetRun ==
    /\ new_downloads' = 0 /\ reused' = 0 /\ downloaded' = 0 /\ generated' = 0
    /\ failures' = Empty /\ fetch_calls' = Empty /\ npm_calls' = Empty

NoLocals ==
    /\ manifest' = Empty /\ repo_index' = Empty /\ packages_repo_index' = Empty
    /\ lock_repo_index' = Empty /\ pkg_to_lock' = Empty

Snapshot(pc_, pi_, lm_, li_) == <<pc_, pi_, lm_, li_>>

NoBaseline == <<>>

\* A run after the first one has ended otherwise than the first one did.
Deviated ==
    \/ pc # "done"
    \/ baseline # Snapshot(packages_cache, package_json_repo_index,
                           package_lock_manifest, package_lock_repo_index)

Total(f) == LET RECURSIVE Sum(_)
                Sum(S) == IF S = {} THEN 0
                          ELSE LET k == CHOOSE x \in S : TRUE IN f[k] + Sum(S \ {k})
            IN  Sum(DOMAIN f)

\* get_packagesjson, up to the loop.
StartPackages(f) ==
    /\ UNCHANGED beyond_pipeline
    /\ pc # "loop"
    /\ step' = 2 /\ force' = f /\ idx' = 1
    /\ ResetRun
    /\ IF repos = <<>>
       THEN /\ pc' = "fatal"
            /\ NoLocals
            /\ UNCHANGED <<files, older>>
       ELSE IF load_index_raises(PACKAGES_MANIFEST_FILE)
       THEN /\ pc' = "aborted"
            /\ NoLocals
            /\ UNCHANGED <<files, older>>
       ELSE LET entries == load_index(PACKAGES_MANIFEST_FILE, packages_cache)
                raw == load_index(PACKAGES_MANIFEST_FILE, packages_cache_older)
                loaded == load_packages_manifest_older(entries, raw)
                migrated == raw # Empty
            IN  /\ package_json_docs' = save_json_documents(package_json_docs, raw)
                /\ packages_cache' = IF migrated THEN loaded ELSE packages_cache
                /\ packages_cache_older' =
                       IF migrated THEN Empty ELSE packages_cache_older
                /\ damage' = IF migrated THEN save_index(PACKAGES_MANIFEST_FILE)
                              ELSE damage
                /\ IF load_index_raises(PACKAGES_REPO_INDEX_FILE)
                   THEN /\ pc' = "aborted"
                        /\ NoLocals
                   ELSE /\ pc' = "loop"
                        /\ manifest' = loaded
                        /\ repo_index' = load_repo_index(
                               load_index(PACKAGES_REPO_INDEX_FILE,
                                          package_json_repo_index))
                        /\ packages_repo_index' = Empty /\ lock_repo_index' = Empty
                        /\ pkg_to_lock' = Empty
                /\ UNCHANGED <<package_lock_docs, package_json_repo_index,
                               package_lock_manifest, package_lock_repo_index,
                               package_lock_manifest_older, package_lock_cache_pkl>>
    /\ settled' = IF settled = 2 /\ ~f /\ ~Deviated THEN 2 ELSE 0
    /\ clean' = IF settled' = 2 THEN clean ELSE TRUE
    /\ baseline' = IF settled' = 2 THEN baseline ELSE NoBaseline
    /\ UNCHANGED <<repos, upstream, edits>>

CurItem == repos[idx]

InLoop(st) == pc = "loop" /\ step = st /\ idx <= Len(repos)

\* One iteration that reuses the indexed manifest.
PackagesReuse ==
    /\ UNCHANGED beyond_loop
    /\ InLoop(2)
    /\ package_json_reused(force, build_repo_key(CurItem), repo_index)
    /\ reused' = reused + 1
    /\ idx' = idx + 1
    /\ UNCHANGED <<repos, upstream, files, pc, step, force, locals, new_downloads,
                   downloaded, generated, failures, fetch_calls, npm_calls,
                   settled, clean, baseline, edits>>

\* One iteration whose fetch_package_json raises.
PackagesFetchFails ==
    /\ UNCHANGED beyond_loop
    /\ InLoop(2)
    /\ ~package_json_reused(force, build_repo_key(CurItem), repo_index)
    /\ \E error \in FetchErrors :
          /\ fetch_calls' = Put(fetch_calls, build_repo_key(CurItem), error)
          /\ failures' = Incr(failures, failure_reason(error))
    /\ idx' = idx + 1
    /\ UNCHANGED <<repos, upstream, files, pc, step, force, locals, new_downloads,
                   reused, downloaded, generated, npm_calls, settled, clean, baseline, edits>>

\* One iteration that downloads the manifest and caches it.
PackagesDownload ==
    /\ UNCHANGED beyond_loop
    /\ InLoop(2)
    /\ ~package_json_reused(force, build_repo_key(CurItem), repo_index)
    /\ LET repo_key == build_repo_key(CurItem)
           package_data == upstream[repo_key].manifest
           signature == signature_for_json(package_data)
       IN  /\ fetch_calls' = Put(fetch_calls, repo_key, "ok")
           /\ package_json_docs' =
                  save_json_document(package_json_docs, signature, package_data)
           /\ manifest' = update_manifest_entry(manifest, signature, repo_key)
           /\ repo_index' = Put(repo_index, repo_key, build_repo_metadata(CurItem, signature))
    /\ new_downloads' = new_downloads + 1
    /\ idx' = idx + 1
    /\ UNCHANGED <<repos, upstream, package_lock_docs, packages_cache,
                   package_json_repo_index, package_lock_manifest,
                   package_lock_repo_index, pc, step, force, packages_repo_index,
                   lock_repo_index, pkg_to_lock, reused, downloaded, generated,
                   failures, npm_calls, settled, clean, baseline, edits>>

\* get_packagesjson, after the loop: raise on an empty index, else save both.
FinishPackages ==
    /\ UNCHANGED beyond_pipeline
    /\ pc = "loop" /\ step = 2 /\ idx > Len(repos)
    /\ IF repo_index = Empty
       THEN /\ pc' = "fatal"
            /\ UNCHANGED <<packages_cache, package_json_repo_index, older>>
       ELSE /\ pc' = "done"
            /\ packages_cache' = manifest
            /\ package_json_repo_index' = repo_index
            /\ packages_cache_older' = Empty
            /\ damage' = [damage EXCEPT ![PACKAGES_MANIFEST_FILE] = "",
                                        ![PACKAGES_REPO_INDEX_FILE] = ""]
            /\ UNCHANGED <<package_lock_manifest_older, package_lock_cache_pkl>>
    /\ settled' = IF settled = 2 THEN 2 ELSE IF pc' = "done" THEN 1 ELSE 0
    /\ clean' = IF settled = 2 THEN clean ELSE failures = Empty
    /\ UNCHANGED baseline
    /\ UNCHANGED <<repos, upstream, package_json_docs, package_lock_docs,
                   package_lock_manifest, package_lock_repo_index, step, force, idx,
                   locals, counters, fetch_calls, npm_calls, edits>>


\* ------------------------------------------------- step_03_get_package_lock
load_packages_repo_index(file) == file

\* load_index + load_lock_manifest on entries already in the current shape.
load_lock_manifest(file) ==
    [i \in 1..Len(file) |->
        <<file[i][1], [path |-> file[i][2].path, repos |-> file[i][2].repos,
                       packageSignatures |-> file[i][2].packageSignatures,
                       sources |-> file[i][2].sources]>>]

load_lock_repo_index(file) == file

\* An entry of the lock manifest file in an older shape is a record
\* [content, path, repos, packageSignatures, source]: `content` is the lock
\* itself where the entry holds it (no "path" key), None where the entry holds
\* a path and one `source` string ("" for none).
HoldsContent(payload) == payload.content # None

\* A lock found in the manifest file itself labelled as nothing else is.
MigratedSource_other == "imported"

\* The source label given to a lock found in the manifest file itself.
MigratedSource == "migrated"

\* lock_entry_from that credits a lock found in the file to the manifest MA.
lock_entry_from_credited(signature, payload) ==
    IF HoldsContent(payload)
    THEN [path |-> PACKAGE_LOCK_SUBDIR \o "/" \o signature \o ".json",
          repos |-> {}, packageSignatures |-> {signature_for_json(MA)},
          sources |-> {MigratedSource}]
    ELSE [path |-> payload.path, repos |-> payload.repos,
          packageSignatures |-> payload.packageSignatures,
          sources |-> IF payload.source = "" THEN {} ELSE {payload.source}]

\* load_lock_manifest, lines 81-104, on one entry of an older shape.
lock_entry_from(signature, payload) ==
    IF HoldsContent(payload)
    THEN [path |-> PACKAGE_LOCK_SUBDIR \o "/" \o signature \o ".json",
          repos |-> {}, packageSignatures |-> {}, sources |-> {MigratedSource}]
    ELSE [path |-> payload.path, repos |-> payload.repos,
          packageSignatures |-> payload.packageSignatures,
          sources |-> IF payload.source = "" THEN {} ELSE {payload.source}]

\* migrate_legacy_lock_cache: the entries made of the pickled cache.
migrate_legacy_lock_cache(pkl) ==
    [i \in 1..Len(pkl) |->
        <<pkl[i][1], [path |-> PACKAGE_LOCK_SUBDIR \o "/" \o pkl[i][1] \o ".json",
                      repos |-> {}, packageSignatures |-> {}, sources |-> {"legacy"}]>>]

\* The entries load_lock_manifest builds of the file before it looks at the pickle.
lock_entries_of(entries, raw) ==
    [i \in 1..Len(raw) |-> <<raw[i][1], lock_entry_from(raw[i][1], raw[i][2])>>]
    \o load_lock_manifest(entries)

\* `if not manifest`: the pickled cache is read when the file gave no entry.
reads_pickle(entries, raw) == lock_entries_of(entries, raw) = <<>>

load_lock_manifest_older(entries, raw, pkl) ==
    IF reads_pickle(entries, raw) THEN migrate_legacy_lock_cache(pkl)
    ELSE lock_entries_of(entries, raw)

\* `migrated`: whether load_lock_manifest saves the index it built.
lock_manifest_migrated(entries, raw, pkl) ==
    \/ \E i \in 1..Len(raw) : HoldsContent(raw[i][2])
    \/ reads_pickle(entries, raw) /\ pkl # <<>>

\* The documents load_lock_manifest stores: signature -> content.
RECURSIVE AsTable(_)
AsTable(pairs) ==
    IF pairs = <<>> THEN Empty
    ELSE Put(AsTable(Tail(pairs)), Head(pairs)[1], Head(pairs)[2])

migrated_locks(entries, raw, pkl) ==
    LET held == SelectSeq(raw, LAMBDA e : HoldsContent(e[2]))
    IN  IF reads_pickle(entries, raw) THEN AsTable(pkl)
        ELSE AsTable([i \in 1..Len(held) |-> <<held[i][1], held[i][2].content>>])

\* packageSignature -> <<lockSignature, preferredSource>>, first entry in file order.
build_package_to_lock_map(m) ==
    LET sigs == UNION {m[i][2].packageSignatures : i \in 1..Len(m)}
        first(p) == CHOOSE i \in 1..Len(m) :
                        /\ p \in m[i][2].packageSignatures
                        /\ \A j \in 1..(i - 1) : p \notin m[j][2].packageSignatures
    IN  [p \in sigs |->
            <<m[first(p)][1],
              IF "repository" \in m[first(p)][2].sources THEN "repository"
              ELSE "generated">>]

\* The mapping left as loaded at the start of the run.
setdefault_dropped(d, k, v) == d

\* dict.setdefault
setdefault(d, k, v) == IF k \in DOMAIN d THEN d ELSE Put(d, k, v)

\* _get_private_scopes with NPM_PRIVATE_SCOPES unset.
private_scopes == {"@appcross"}

\* str.lower, on the pieces the model writes in capitals.
Lower(s) ==
    [i \in 1..Len(s) |->
        IF s[i] = "HTTPS:" THEN "https:" ELSE IF s[i] = "FILE:" THEN "file:" ELSE s[i]]

invalid_prefixes == {"file:", "link:", "workspace:", "git+", "github:", "http:", "https:"}

\* <<drop, reason>> for one dependency: its name in pieces, its spec a JSON value.
should_drop_dep(name, spec) ==
    IF \E scope \in private_scopes : StartsWith(name, <<scope, "/">>)
    THEN <<TRUE, "private">>
    ELSE IF /\ spec.t = "str"
            /\ \E prefix \in invalid_prefixes :
                  StartsWith(Lower(Strip(spec.s)), <<prefix>>)
    THEN <<TRUE, "local">>
    ELSE <<FALSE, "None">>

DependencyMaps == {"dependencies", "devDependencies", "peerDependencies",
                   "optionalDependencies"}

\* `isinstance(deps, dict)` for the value under one of the four keys.
IsDependencyMap(pair) == pair[1] \in DependencyMaps /\ pair[2].t = "dict"

\* The names removed from the maps of a manifest for one reason.
removed_names(content, reason) ==
    UNION {{content[i][2].d[j][1] :
               j \in {j \in 1..Len(content[i][2].d) :
                         should_drop_dep(content[i][2].d[j][1], content[i][2].d[j][2])
                           = <<TRUE, reason>>}} :
           i \in {i \in 1..Len(content) : IsDependencyMap(content[i])}}

\* `effective.pop(key, None) is not None`
popped(content, key) == HasKey(content, key) /\ ValueOf(content, key).t # "null"

Warn(about, names) == [warn |-> about, names |-> names]

\* _sanitize_package_json_for_fallback: the copy handed to npm and the warnings.
sanitize_package_json_for_fallback(content) ==
    LET without == SelectSeq(content,
                             LAMBDA pair : pair[1] \notin {"workspaces", "overrides"})
        cleaned == [i \in 1..Len(without) |->
                       IF IsDependencyMap(without[i])
                       THEN <<without[i][1],
                              [without[i][2] EXCEPT !.d =
                                  SelectSeq(without[i][2].d,
                                            LAMBDA dep : ~should_drop_dep(dep[1], dep[2])[1])]>>
                       ELSE without[i]]
    IN  [effective |->
             SelectSeq(cleaned, LAMBDA pair : ~(IsDependencyMap(pair) /\ pair[2].d = <<>>)),
         msgs |->
             (IF popped(content, "workspaces") THEN <<Warn("workspaces", {})>> ELSE <<>>)
             \o (IF popped(content, "overrides") THEN <<Warn("overrides", {})>> ELSE <<>>)
             \o (IF removed_names(content, "private") # {}
                 THEN <<Warn("private", removed_names(content, "private"))>> ELSE <<>>)
             \o (IF removed_names(content, "local") # {}
                 THEN <<Warn("local", removed_names(content, "local"))>> ELSE <<>>)]

\* generate_lock_with_npm for every outcome but the timeout of npm install,
\* which raises subprocess.TimeoutExpired through the function.
generate_lock_with_npm(package_content, outcome) ==
    IF outcome = "ok"
    THEN npm_install(sanitize_package_json_for_fallback(package_content).effective)
    ELSE None

\* The result of the generator stored without the test for None.
generation_failed_unchecked(lock_content) == FALSE

\* `if lock_content is None` after the generator returned.
generation_failed(lock_content) == lock_content = None

\* update_lock_manifest_entry that does not record the manifest signature.
update_lock_manifest_entry_nopkg(m, lock_signature, repo_key, package_signature, source) ==
    LET entry == IF DHas(m, lock_signature) THEN DGet(m, lock_signature)
                 ELSE [path |-> PACKAGE_LOCK_SUBDIR \o "/" \o lock_signature \o ".json",
                       repos |-> {}, packageSignatures |-> {}, sources |-> {}]
    IN  DPut(m, lock_signature,
             [path |-> PACKAGE_LOCK_SUBDIR \o "/" \o lock_signature \o ".json",
              repos |-> entry.repos \cup {repo_key},
              packageSignatures |-> entry.packageSignatures,
              sources |-> entry.sources \cup {source}])

update_lock_manifest_entry(m, lock_signature, repo_key, package_signature, source) ==
    LET entry == IF DHas(m, lock_signature) THEN DGet(m, lock_signature)
                 ELSE [path |-> PACKAGE_LOCK_SUBDIR \o "/" \o lock_signature \o ".json",
                       repos |-> {}, packageSignatures |-> {}, sources |-> {}]
    IN  DPut(m, lock_signature,
             [path |-> PACKAGE_LOCK_SUBDIR \o "/" \o lock_signature \o ".json",
              repos |-> entry.repos \cup {repo_key},
              packageSignatures |-> entry.packageSignatures \cup {package_signature},
              sources |-> entry.sources \cup {source}])

build_lock_repo_metadata(item, package_signature, lock_signature, source) ==
    [lockSignature |-> lock_signature, packageSignature |-> package_signature,
     source |-> source, repositoryId |-> item.id, repositoryName |-> item.name,
     project |-> item.project, path |-> item.path, branch |-> item.branch]

\* The own-lock test without the comparison of manifest signatures.
reuses_own_lock_any_manifest(f, index, repo_key, package_signature, docs) ==
    /\ ~f
    /\ repo_key \in DOMAIN index
    /\ index[repo_key].lockSignature # ""
    /\ load_json_document(docs, index[repo_key].lockSignature) # None

\* The condition of the first `continue` of the loop: the repository's own lock.
reuses_own_lock(f, index, repo_key, package_signature, docs) ==
    /\ ~f
    /\ repo_key \in DOMAIN index
    /\ index[repo_key].lockSignature # ""
    /\ index[repo_key].packageSignature = package_signature
    /\ load_json_document(docs, index[repo_key].lockSignature) # None

\* The condition of the fast path: a lock already mapped to the manifest signature.
reuses_mapped_lock(f, package_signature, mapping, docs) ==
    /\ ~f
    /\ package_signature \in DOMAIN mapping
    /\ load_json_document(docs, mapping[package_signature][1]) # None

\* get_package_lock, up to the loop.
StartLock(f) ==
    /\ UNCHANGED beyond_pipeline
    /\ pc # "loop"
    /\ step' = 3 /\ force' = f /\ idx' = 1
    /\ ResetRun
    /\ IF repos = <<>>
       THEN /\ pc' = "fatal"
            /\ NoLocals
            /\ UNCHANGED <<files, older>>
       ELSE IF load_index_raises(PACKAGES_REPO_INDEX_FILE)
       THEN /\ pc' = "aborted"
            /\ NoLocals
            /\ UNCHANGED <<files, older>>
       ELSE IF load_packages_repo_index(
                  load_index(PACKAGES_REPO_INDEX_FILE, package_json_repo_index)) = Empty
       THEN /\ pc' = "fatal"
            /\ NoLocals
            /\ UNCHANGED <<files, older>>
       ELSE IF load_index_raises(PACKAGE_LOCK_MANIFEST_FILE)
       THEN /\ pc' = "aborted"
            /\ NoLocals
            /\ UNCHANGED <<files, older>>
       ELSE LET entries == load_index(PACKAGE_LOCK_MANIFEST_FILE, package_lock_manifest)
                raw == load_index(PACKAGE_LOCK_MANIFEST_FILE,
                                  package_lock_manifest_older)
                loaded == load_lock_manifest_older(entries, raw, package_lock_cache_pkl)
                migrated == lock_manifest_migrated(entries, raw, package_lock_cache_pkl)
            IN  /\ package_lock_docs' =
                       save_json_documents(package_lock_docs,
                           migrated_locks(entries, raw, package_lock_cache_pkl))
                /\ package_lock_manifest' =
                       IF migrated THEN loaded ELSE package_lock_manifest
                /\ package_lock_manifest_older' =
                       IF migrated THEN <<>> ELSE package_lock_manifest_older
                /\ damage' = IF migrated THEN save_index(PACKAGE_LOCK_MANIFEST_FILE)
                              ELSE damage
                /\ IF load_index_raises(PACKAGE_LOCK_REPO_INDEX_FILE)
                   THEN /\ pc' = "aborted"
                        /\ NoLocals
                   ELSE /\ pc' = "loop"
                        /\ packages_repo_index' = load_packages_repo_index(
                               load_index(PACKAGES_REPO_INDEX_FILE,
                                          package_json_repo_index))
                        /\ manifest' = loaded
                        /\ lock_repo_index' = load_lock_repo_index(
                               load_index(PACKAGE_LOCK_REPO_INDEX_FILE,
                                          package_lock_repo_index))
                        /\ pkg_to_lock' = build_package_to_lock_map(loaded)
                        /\ repo_index' = Empty
                /\ UNCHANGED <<package_json_docs, packages_cache,
                               package_json_repo_index, package_lock_repo_index,
                               packages_cache_older, package_lock_cache_pkl>>
    /\ settled' = IF pc' = "fatal" \/ (settled = 2 /\ (f \/ Deviated)) THEN 0
                  ELSE settled
    /\ clean' = IF settled' = 0 THEN TRUE ELSE clean
    /\ baseline' = IF settled' = 2 THEN baseline ELSE NoBaseline
    /\ UNCHANGED <<repos, upstream, edits>>

CurKey == build_repo_key(CurItem)

CurPackageSignature == packages_repo_index[CurKey].signature

HasPackageMeta == CurKey \in DOMAIN packages_repo_index

\* One iteration for a repository step 02 never indexed.
LockNoPackageJson ==
    /\ UNCHANGED beyond_loop
    /\ InLoop(3)
    /\ ~HasPackageMeta
    /\ failures' = Incr(failures, "package_json_missing")
    /\ idx' = idx + 1
    /\ UNCHANGED <<repos, upstream, files, pc, step, force, locals, new_downloads,
                   reused, downloaded, generated, fetch_calls, npm_calls,
                   settled, clean, baseline, edits>>

ReusesOwn ==
    reuses_own_lock(force, lock_repo_index, CurKey, CurPackageSignature,
                    package_lock_docs)

ReusesMapped ==
    reuses_mapped_lock(force, CurPackageSignature, pkg_to_lock, package_lock_docs)

\* One iteration that keeps the repository's own cached lock.
LockReuseOwn ==
    /\ UNCHANGED beyond_loop
    /\ InLoop(3) /\ HasPackageMeta
    /\ ReusesOwn
    /\ reused' = reused + 1
    /\ idx' = idx + 1
    /\ UNCHANGED <<repos, upstream, files, pc, step, force, locals, new_downloads,
                   downloaded, generated, failures, fetch_calls, npm_calls,
                   settled, clean, baseline, edits>>

\* One iteration that reuses the lock mapped to the same manifest signature.
LockReuseMapped ==
    /\ UNCHANGED beyond_loop
    /\ InLoop(3) /\ HasPackageMeta
    /\ ~ReusesOwn /\ ReusesMapped
    /\ LET mapped_lock_sig == pkg_to_lock[CurPackageSignature][1]
           mapped_source == pkg_to_lock[CurPackageSignature][2]
       IN  /\ manifest' = update_lock_manifest_entry(manifest, mapped_lock_sig, CurKey,
                              CurPackageSignature, mapped_source)
           /\ lock_repo_index' = Put(lock_repo_index, CurKey,
                  build_lock_repo_metadata(CurItem, CurPackageSignature,
                                           mapped_lock_sig, mapped_source))
    /\ reused' = reused + 1
    /\ idx' = idx + 1
    /\ UNCHANGED <<repos, upstream, files, pc, step, force, repo_index,
                   packages_repo_index, pkg_to_lock, new_downloads, downloaded,
                   generated, failures, fetch_calls, npm_calls, settled, clean, baseline, edits>>

\* What fetch_package_lock_from_repo can do for a repository: return the lock
\* held upstream, report it missing (None), or raise.
LockFetchResults(repo_key) ==
    {IF upstream[repo_key].lock = None THEN <<"missing", None>>
     ELSE <<"ok", upstream[repo_key].lock>>}
    \cup {<<error, None>> : error \in FetchErrors}

MustFetch == InLoop(3) /\ HasPackageMeta /\ ~ReusesOwn /\ ~ReusesMapped

\* The failure counters after the try/except around the fetch.
after_fetch(fails, result) ==
    IF result[1] \in FetchErrors THEN Incr(fails, failure_reason(result[1])) ELSE fails

\* lock_content after the try/except around the fetch.
fetched_content(result) == result[2]

\* Lines 457-469: count, store the document, update both indices and the mapping.
StoreLock(lock_content, source) ==
    LET lock_signature == signature_for_json(lock_content)
    IN  /\ generated' = IF source = "generated" THEN generated + 1 ELSE generated
        /\ downloaded' = IF source = "generated" THEN downloaded ELSE downloaded + 1
        /\ package_lock_docs' =
              save_json_document(package_lock_docs, lock_signature, lock_content)
        /\ manifest' = update_lock_manifest_entry(manifest, lock_signature, CurKey,
                           CurPackageSignature, source)
        /\ lock_repo_index' = Put(lock_repo_index, CurKey,
              build_lock_repo_metadata(CurItem, CurPackageSignature, lock_signature,
                                       source))
        /\ pkg_to_lock' = setdefault(pkg_to_lock, CurPackageSignature,
                                     <<lock_signature, source>>)

\* One iteration that downloads the lock from the repository.
LockDownload ==
    /\ UNCHANGED beyond_loop
    /\ MustFetch
    /\ \E result \in LockFetchResults(CurKey) :
          /\ fetched_content(result) # None
          /\ fetch_calls' = Put(fetch_calls, CurKey, "ok")
          /\ StoreLock(fetched_content(result), "repository")
    /\ idx' = idx + 1
    /\ UNCHANGED <<repos, upstream, package_json_docs, packages_cache,
                   package_json_repo_index, package_lock_manifest,
                   package_lock_repo_index, pc, step, force, repo_index,
                   packages_repo_index, new_downloads, reused, failures, npm_calls,
                   settled, clean, baseline, edits>>

FetchOutcome(result) == result[1]

\* One iteration without a fetched lock whose cached package.json is gone.
LockPackageJsonGone ==
    /\ UNCHANGED beyond_loop
    /\ MustFetch
    /\ load_json_document(package_json_docs, CurPackageSignature) = None
    /\ \E result \in LockFetchResults(CurKey) :
          /\ fetched_content(result) = None
          /\ fetch_calls' = Put(fetch_calls, CurKey, FetchOutcome(result))
          /\ failures' = Incr(after_fetch(failures, result), "missing_package_json")
    /\ idx' = idx + 1
    /\ UNCHANGED <<repos, upstream, files, pc, step, force, locals, new_downloads,
                   reused, downloaded, generated, npm_calls, settled, clean, baseline, edits>>

\* One iteration without a fetched lock: npm generates one, or returns None.
LockGenerate ==
    /\ UNCHANGED beyond_loop
    /\ MustFetch
    /\ load_json_document(package_json_docs, CurPackageSignature) # None
    /\ \E result \in LockFetchResults(CurKey), outcome \in NpmOutcomes \ {"timeout"} :
          LET package_content ==
                  load_json_document(package_json_docs, CurPackageSignature)
              lock_content == generate_lock_with_npm(package_content, outcome)
          IN  /\ fetched_content(result) = None
              /\ fetch_calls' = Put(fetch_calls, CurKey, FetchOutcome(result))
              /\ npm_calls' = Put(npm_calls, CurKey,
                                  IF lock_content = None THEN "None" ELSE "lock")
              /\ IF generation_failed(lock_content)
                 THEN /\ failures' = Incr(after_fetch(failures, result), "npm_failed")
                      /\ UNCHANGED <<package_lock_docs, manifest, lock_repo_index,
                                     pkg_to_lock, generated, downloaded>>
                 ELSE /\ failures' = after_fetch(failures, result)
                      /\ StoreLock(lock_content, "generated")
    /\ idx' = idx + 1
    /\ UNCHANGED <<repos, upstream, package_json_docs, packages_cache,
                   package_json_repo_index, package_lock_manifest,
                   package_lock_repo_index, pc, step, force, repo_index,
                   packages_repo_index, new_downloads, reused, settled, clean, baseline, edits>>

\* One iteration whose npm install exceeds its timeout: TimeoutExpired leaves
\* generate_lock_with_npm and get_package_lock, which catch it nowhere.
LockGenerateTimeout ==
    /\ UNCHANGED beyond_loop
    /\ MustFetch
    /\ load_json_document(package_json_docs, CurPackageSignature) # None
    /\ \E result \in LockFetchResults(CurKey) :
          /\ fetched_content(result) = None
          /\ fetch_calls' = Put(fetch_calls, CurKey, FetchOutcome(result))
          /\ failures' = after_fetch(failures, result)
    /\ npm_calls' = Put(npm_calls, CurKey, "TimeoutExpired")
    /\ pc' = "aborted"
    /\ settled' = IF settled = 2 THEN 2 ELSE 0
    /\ clean' = IF settled = 2 THEN clean ELSE TRUE
    /\ UNCHANGED baseline
    /\ UNCHANGED <<repos, upstream, files, step, force, idx, locals, new_downloads,
                   reused, downloaded, generated, edits>>

\* get_package_lock, after the loop: save both indices, then raise on an empty one.
FinishLock ==
    /\ UNCHANGED beyond_pipeline
    /\ pc = "loop" /\ step = 3 /\ idx > Len(repos)
    /\ package_lock_manifest' = manifest
    /\ package_lock_repo_index' = lock_repo_index
    /\ package_lock_manifest_older' = <<>>
    /\ damage' = [damage EXCEPT ![PACKAGE_LOCK_MANIFEST_FILE] = "",
                                ![PACKAGE_LOCK_REPO_INDEX_FILE] = ""]
    /\ UNCHANGED <<packages_cache_older, package_lock_cache_pkl>>
    /\ pc' = IF lock_repo_index = Empty THEN "fatal" ELSE "done"
    /\ settled' = IF settled = 2 THEN 2
                  ELSE IF settled = 1 /\ pc' = "done" THEN 2 ELSE 0
    /\ clean' = IF settled = 2 THEN clean
                ELSE IF settled' = 2 THEN clean /\ failures = Empty ELSE TRUE
    /\ baseline' = IF settled = 2 THEN baseline
                   ELSE IF settled' = 2
                        THEN Snapshot(packages_cache, package_json_repo_index,
                                      package_lock_manifest', package_lock_repo_index')
                        ELSE NoBaseline
    /\ UNCHANGED <<repos, upstream, package_json_docs, package_lock_docs,
                   packages_cache, package_json_repo_index, step, force, idx,
                   locals, counters, fetch_calls, npm_calls, edits>>

\* ------------------------------------------------------------ environment
\* Between two runs a repository's manifest or lock file changes upstream.
UpstreamChanges ==
    /\ UNCHANGED beyond_loop
    /\ pc # "loop" /\ edits < MaxEdits
    /\ edits' = edits + 1
    /\ \E k \in RepoKeys :
          \/ \E m \in ManifestContents \ {upstream[k].manifest} :
                upstream' = [upstream EXCEPT ![k].manifest = m]
          \/ \E l \in (LockContents \cup {None}) \ {upstream[k].lock} :
                upstream' = [upstream EXCEPT ![k].lock = l]
    /\ settled' = 0 /\ clean' = TRUE /\ baseline' = NoBaseline
    /\ UNCHANGED <<repos, files, pc, step, force, idx, locals, counters, fetch_calls,
                   npm_calls>>

\* Between two runs a cached document is lost or damaged on disk.
DocumentDamaged ==
    /\ UNCHANGED beyond_loop
    /\ pc # "loop" /\ edits < MaxEdits
    /\ edits' = edits + 1
    /\ \/ \E s \in DOMAIN package_json_docs :
             /\ package_json_docs[s] # Corrupt
             /\ package_json_docs' = Put(package_json_docs, s, Corrupt)
             /\ UNCHANGED package_lock_docs
       \/ \E s \in DOMAIN package_lock_docs :
             /\ package_lock_docs[s] # Corrupt
             /\ package_lock_docs' = Put(package_lock_docs, s, Corrupt)
             /\ UNCHANGED package_json_docs
    /\ settled' = 0 /\ clean' = TRUE /\ baseline' = NoBaseline
    /\ UNCHANGED <<repos, upstream, packages_cache, package_json_repo_index,
                   package_lock_manifest, package_lock_repo_index, pc, step, force,
                   idx, locals, counters, fetch_calls, npm_calls>>

\* ------------------------------------------------------------ specification

\* ------------------------------------------------ step_04_audit_package_locks
\* A string whose content the code inspects (a version, a spec, a target line)
\* is the sequence of its characters; Join gives back the plain string.
RECURSIVE Join(_)
Join(s) == IF s = <<>> THEN "" ELSE Head(s) \o Join(Tail(s))

Digits == <<"0", "1", "2", "3", "4", "5", "6", "7", "8", "9">>

IsDigit(c) == \E i \in 1..Len(Digits) : Digits[i] = c

DigitValue(c) == (CHOOSE i \in 1..Len(Digits) : Digits[i] = c) - 1

\* Length of the run of digits that s starts with.
RECURSIVE DigitRun(_)
DigitRun(s) == IF s # <<>> /\ IsDigit(Head(s)) THEN 1 + DigitRun(Tail(s)) ELSE 0

\* int() of a run of digits.
RECURSIVE NumberFrom(_, _)
NumberFrom(s, acc) ==
    IF s = <<>> THEN acc ELSE NumberFrom(Tail(s), acc * 10 + DigitValue(Head(s)))

Drop(s, n) == SubSeq(s, n + 1, Len(s))

\* A parse that raised: safe_version and safe_npmspec return None.
Unparsed == [ok |-> FALSE, op |-> "", parts |-> 0, major |-> 0, minor |-> 0,
             patch |-> 0, prerelease |-> <<>>, build |-> <<>>]

\* The numeric head of a version: \d+(\.\d+(\.\d+)?)? matched at the start of s,
\* as [n |-> characters matched, parts, major, minor, patch].
NumericHead(s) ==
    LET n1 == DigitRun(s)
        r1 == Drop(s, n1)
        n2 == IF n1 > 0 /\ r1 # <<>> /\ Head(r1) = "." THEN DigitRun(Tail(r1)) ELSE 0
        r2 == IF n2 > 0 THEN Drop(r1, n2 + 1) ELSE r1
        n3 == IF n2 > 0 /\ r2 # <<>> /\ Head(r2) = "." THEN DigitRun(Tail(r2)) ELSE 0
    IN  [n |-> n1 + (IF n2 > 0 THEN n2 + 1 ELSE 0) + (IF n3 > 0 THEN n3 + 1 ELSE 0),
         parts |-> IF n1 = 0 THEN 0 ELSE IF n2 = 0 THEN 1 ELSE IF n3 = 0 THEN 2 ELSE 3,
         major |-> NumberFrom(SubSeq(s, 1, n1), 0),
         minor |-> IF n2 > 0 THEN NumberFrom(SubSeq(r1, 2, n2 + 1), 0) ELSE 0,
         patch |-> IF n3 > 0 THEN NumberFrom(SubSeq(r2, 2, n3 + 1), 0) ELSE 0,
         zeros |-> \/ n1 > 1 /\ s[1] = "0"
                   \/ n2 > 1 /\ r1[2] = "0"
                   \/ n3 > 1 /\ r2[2] = "0"]

\* Version.coerce: the numeric head, completed with zeros; what follows it
\* becomes the prerelease or the build of the version.
safe_version(version) ==
    LET h == NumericHead(version)
        rest == Drop(version, h.n)
    IN  IF h.parts = 0 THEN Unparsed
        ELSE [ok |-> TRUE, op |-> "", parts |-> 3,
              major |-> h.major, minor |-> h.minor, patch |-> h.patch,
              prerelease |-> IF rest = <<>> \/ Head(rest) \in {"+", "."} THEN <<>>
                             ELSE IF Head(rest) = "-" THEN Tail(rest) ELSE rest,
              build |-> IF rest # <<>> /\ Head(rest) \in {"+", "."} THEN Tail(rest)
                        ELSE <<>>]

\* The operator an NpmSpec block starts with (possibly none).
SpecOperator(s) ==
    IF Len(s) >= 2 /\ s[1] \in {"<", ">"} /\ s[2] = "=" THEN s[1] \o "="
    ELSE IF s # <<>> /\ s[1] \in {"<", ">", "=", "^", "~"} THEN s[1]
    ELSE ""

OperatorLength(op) == IF op = "" THEN 0 ELSE IF op \in {"<=", ">="} THEN 2 ELSE 1

\* NpmSpec of one block "<op>major[.minor[.patch]]" with numeric components
\* written without leading zeros; any other string of the model raises.
safe_npmspec(spec) ==
    LET op == SpecOperator(spec)
        body == Drop(spec, OperatorLength(op))
        h == NumericHead(body)
    IN  IF h.parts = 0 \/ h.n # Len(body) \/ h.zeros THEN Unparsed
        ELSE [ok |-> TRUE, op |-> op, parts |-> h.parts,
              major |-> h.major, minor |-> h.minor, patch |-> h.patch,
              prerelease |-> <<>>, build |-> <<>>]

Triple(major, minor, patch) == <<major, minor, patch>>

TripleOf(v) == Triple(v.major, v.minor, v.patch)

\* Precedence of two versions without prerelease.
Before(a, b) ==
    \/ a[1] < b[1]
    \/ a[1] = b[1] /\ a[2] < b[2]
    \/ a[1] = b[1] /\ a[2] = b[2] /\ a[3] < b[3]

\* The bounds [lower, upper) of the range a parsed spec stands for; an upper
\* bound of <<>> means none.
NoBound == <<>>

\* A caret spec without an end.
CaretUpper_unbounded(s) == NoBound

\* The version after which the range of a caret spec ends.
CaretUpper(s) ==
    IF s.major > 0 \/ s.parts = 1 THEN Triple(s.major + 1, 0, 0)
    ELSE IF s.minor > 0 \/ s.parts = 2 THEN Triple(0, s.minor + 1, 0)
    ELSE Triple(0, 0, s.patch + 1)

\* The first version above every version a partial spec matches.
PartialUpper(s) ==
    IF s.parts = 1 THEN Triple(s.major + 1, 0, 0)
    ELSE IF s.parts = 2 THEN Triple(s.major, s.minor + 1, 0)
    ELSE Triple(s.major, s.minor, s.patch + 1)

TildeUpper(s) ==
    IF s.parts = 1 THEN Triple(s.major + 1, 0, 0) ELSE Triple(s.major, s.minor + 1, 0)

\* Every range starting at 0.0.0.
RangeLower_open(s) == Triple(0, 0, 0)

RangeLower(s) ==
    IF s.op = ">" THEN PartialUpper(s)
    ELSE IF s.op \in {"<", "<="} THEN Triple(0, 0, 0)
    ELSE TripleOf(s)

RangeUpper(s) ==
    IF s.op = "^" THEN CaretUpper(s)
    ELSE IF s.op = "~" THEN TildeUpper(s)
    ELSE IF s.op \in {"", "=", "<="} THEN PartialUpper(s)
    ELSE IF s.op = "<" THEN TripleOf(s)
    ELSE NoBound

\* version in npmspec: a version with a prerelease is in no range of a spec
\* that names no prerelease.
version_in_spec(version, npmspec) ==
    /\ version.prerelease = <<>>
    /\ ~Before(TripleOf(version), RangeLower(npmspec))
    /\ (RangeUpper(npmspec) = NoBound
           \/ Before(TripleOf(version), RangeUpper(npmspec)))

\* Version.__eq__
version_equal(a, b) ==
    /\ TripleOf(a) = TripleOf(b)
    /\ a.prerelease = b.prerelease
    /\ a.build = b.build

\* A JSON value inside a lock document: a string (the sequence of its pieces),
\* an object (its members as <<key, value>> pairs in file order) or null.
\* isinstance reads the tag t.
JStr(s) == [t |-> "str", s |-> s, d |-> <<>>]

JDict(d) == [t |-> "dict", s |-> <<>>, d |-> d]

JNull == [t |-> "null", s |-> <<>>, d |-> <<>>]

\* dict.get(key): None when the key is absent.
dict_get(pairs, key) == IF HasKey(pairs, key) THEN ValueOf(pairs, key) ELSE JNull

RECURSIVE Concat(_)
Concat(lists) == IF lists = <<>> THEN <<>> ELSE Head(lists) \o Concat(Tail(lists))

\* The empty string and the sentinel that stands in for it.
NoText == <<>>

Unknown == <<"u", "n", "k", "n", "o", "w", "n">>

or_unknown(text) == IF text = NoText THEN Unknown ELSE text

SpecValueKeys == <<"version", "specifier", "range", "requested", "resolved">>

RECURSIVE FirstSpecValue(_, _)
FirstSpecValue(pairs, i) ==
    IF i > Len(SpecValueKeys) THEN NoText
    ELSE IF dict_get(pairs, SpecValueKeys[i]).t = "str"
         THEN dict_get(pairs, SpecValueKeys[i]).s
         ELSE FirstSpecValue(pairs, i + 1)

normalize_spec_value(value) ==
    IF value.t = "dict" THEN FirstSpecValue(value.d, 1)
    ELSE IF value.t = "null" THEN NoText
    ELSE value.s

\* A key of the packages map is an installation path, kept as the sequence of
\* its pieces ("node_modules/", a package name, "/") so that it can be split.
RECURSIVE AfterLast(_, _)
AfterLast(pieces, sep) ==
    IF \E i \in 1..Len(pieces) : pieces[i] = sep
    THEN AfterLast(Tail(pieces), sep)
    ELSE pieces

derive_package_name(package_path, pkg_info) ==
    LET name == dict_get(pkg_info, "name")
    IN  IF name.t = "str" /\ Join(name.s) # "" THEN Join(name.s)
        ELSE IF package_path = <<>> THEN "<root>"
        ELSE IF \E i \in 1..Len(package_path) : package_path[i] = "node_modules/"
             THEN (IF AfterLast(package_path, "node_modules/") = <<>>
                   THEN Join(package_path)
                   ELSE Join(AfterLast(package_path, "node_modules/")))
        ELSE Join(package_path)

Occurrence(name, version, path, entry_type) ==
    [name |-> name, version |-> version, path |-> path, entry_type |-> entry_type]

\* The tags spelled after the maps they come from.
DependencyKinds_spelled ==
    << <<"dependencies", "dependency">>, <<"peerDependencies", "peerDependency">>,
       <<"devDependencies", "devDependency">>,
       <<"optionalDependencies", "optionalDependency">> >>

DependencyKinds ==
    << <<"dependencies", "dependency">>, <<"peerDependencies", "peer">>,
       <<"devDependencies", "dev">>, <<"optionalDependencies", "optional">> >>

\* Every dependency map filed under the tag of the first one.
iter_dependency_specs_untagged(pkg_info, path) ==
    Concat([k \in 1..Len(DependencyKinds) |->
        LET deps == dict_get(pkg_info, DependencyKinds[k][1])
        IN  IF deps.t = "dict"
            THEN [j \in 1..Len(deps.d) |->
                     Occurrence(deps.d[j][1],
                                or_unknown(normalize_spec_value(deps.d[j][2])),
                                path, DependencyKinds[1][2])]
            ELSE <<>>])

\* The occurrences of the dependency maps of one entry, declared at path.
iter_dependency_specs(pkg_info, path) ==
    Concat([k \in 1..Len(DependencyKinds) |->
        LET deps == dict_get(pkg_info, DependencyKinds[k][1])
        IN  IF deps.t = "dict"
            THEN [j \in 1..Len(deps.d) |->
                     Occurrence(deps.d[j][1],
                                or_unknown(normalize_spec_value(deps.d[j][2])),
                                path, DependencyKinds[k][2])]
            ELSE <<>>])

\* The root entry of the packages map filed under "root" and not installed.
root_as_root(package_path) == IF package_path = <<>> THEN "root" ELSE "installed"

installed_entry_type(package_path) == "installed"

\* The occurrences one entry of the packages map yields.
flatten_package_entry(package_path, pkg_info) ==
    IF pkg_info.t # "dict" THEN <<>>
    ELSE LET path == IF package_path = <<>> THEN "." ELSE Join(package_path)
         IN  <<Occurrence(derive_package_name(package_path, pkg_info.d),
                          or_unknown(normalize_spec_value(dict_get(pkg_info.d, "version"))),
                          path, installed_entry_type(package_path))>>
             \o iter_dependency_specs(pkg_info.d, path)

flatten_packages_map(packages) ==
    Concat([i \in 1..Len(packages) |->
               flatten_package_entry(packages[i][1], packages[i][2])])

\* The nested path with the parent left out.
compose_legacy_path_flat(parent_path, name) == "node_modules/" \o name

compose_legacy_path(parent_path, name) ==
    IF parent_path = "" THEN "node_modules/" \o name
    ELSE parent_path \o "/node_modules/" \o name

RECURSIVE flatten_legacy_dependencies(_, _)
flatten_legacy_dependencies(dependencies, parent_path) ==
    Concat([i \in 1..Len(dependencies) |->
        LET dep_name == dependencies[i][1]
            dep_info == dependencies[i][2]
            path == compose_legacy_path(parent_path, dep_name)
        IN  IF dep_info.t = "dict"
            THEN <<Occurrence(dep_name,
                              or_unknown(normalize_spec_value(
                                             dict_get(dep_info.d, "version"))),
                              path, "installed")>>
                 \o (LET requires == dict_get(dep_info.d, "requires")
                     IN  IF requires.t = "dict"
                         THEN [j \in 1..Len(requires.d) |->
                                  Occurrence(requires.d[j][1],
                                             or_unknown(normalize_spec_value(
                                                            requires.d[j][2])),
                                             path, "dependency")]
                         ELSE <<>>)
                 \o (LET nested == dict_get(dep_info.d, "dependencies")
                     IN  IF nested.t = "dict"
                         THEN flatten_legacy_dependencies(nested.d, path)
                         ELSE <<>>)
            ELSE <<Occurrence(dep_name, or_unknown(normalize_spec_value(dep_info)),
                              path, "dependency")>>])

\* The identity the duplicates are removed by.
occurrence_key_by_name(pkg) == <<pkg.name>>

occurrence_key(pkg) == <<pkg.name, pkg.version, pkg.path, pkg.entry_type>>

RECURSIVE unique_from(_, _)
unique_from(flat, unique) ==
    IF flat = <<>> THEN unique
    ELSE IF \E i \in 1..Len(unique) : occurrence_key(unique[i]) = occurrence_key(Head(flat))
         THEN unique_from(Tail(flat), unique)
         ELSE unique_from(Tail(flat), Append(unique, Head(flat)))

\* flat with both generations read whenever both maps are there.
raw_occurrences_both(lock_content) ==
    LET packages == dict_get(lock_content, "packages")
        dependencies == dict_get(lock_content, "dependencies")
    IN  (IF packages.t = "dict" THEN flatten_packages_map(packages.d) ELSE <<>>)
        \o (IF dependencies.t = "dict"
            THEN flatten_legacy_dependencies(dependencies.d, "") ELSE <<>>)

\* flat, before the duplicates are removed.
raw_occurrences(lock_content) ==
    LET packages == dict_get(lock_content, "packages")
        dependencies == dict_get(lock_content, "dependencies")
        root_name == dict_get(lock_content, "name")
        root_version == normalize_spec_value(dict_get(lock_content, "version"))
    IN  IF packages.t = "dict" /\ packages.d # <<>>
        THEN flatten_packages_map(packages.d)
        ELSE IF dependencies.t = "dict"
             THEN (IF root_name.t = "str" /\ Join(root_name.s) # ""
                   THEN <<Occurrence(Join(root_name.s), or_unknown(root_version),
                                     ".", "root")>>
                   ELSE <<>>)
                  \o flatten_legacy_dependencies(dependencies.d, "")
             ELSE <<>>

flatten_package_lock_content(lock_content) ==
    unique_from(raw_occurrences(lock_content), <<>>)

\* ------------------------------------------------------------ target index
\* The targets file: absent, or its lines (each the sequence of its pieces).
NoFile == [exists |-> FALSE, lines |-> <<>>]

File(lines) == [exists |-> TRUE, lines |-> lines]

RECURSIVE KeepLines(_)
KeepLines(lines) ==
    IF lines = <<>> THEN <<>>
    ELSE IF Strip(Head(lines)) # <<>> /\ Head(Strip(Head(lines))) # "#"
         THEN <<Strip(Head(lines))>> \o KeepLines(Tail(lines))
         ELSE KeepLines(Tail(lines))

load_target_lines(file) == KeepLines(file.lines)

NotATarget == [ok |-> FALSE, name |-> "", spec |-> <<>>]

\* parse_pkg_line that splits on the first @ of the line.
parse_pkg_line_first(line) ==
    LET l == Strip(line)
        ats == {i \in 1..Len(l) : l[i] = "@"}
        first == CHOOSE i \in ats : \A j \in ats : i <= j
        name == Strip(SubSeq(l, 1, first - 1))
        spec == Strip(SubSeq(l, first + 1, Len(l)))
    IN  IF l = <<>> \/ Head(l) = "#" \/ ats = {} THEN NotATarget
        ELSE IF name = <<>> \/ spec = <<>> THEN NotATarget
        ELSE [ok |-> TRUE, name |-> Join(name), spec |-> spec]

parse_pkg_line(line) ==
    LET l == Strip(line)
        ats == {i \in 1..Len(l) : l[i] = "@"}
        last == CHOOSE i \in ats : \A j \in ats : j <= i
        name == Strip(SubSeq(l, 1, last - 1))
        spec == Strip(SubSeq(l, last + 1, Len(l)))
    IN  IF l = <<>> \/ Head(l) = "#" \/ ats = {} THEN NotATarget
        ELSE IF name = <<>> \/ spec = <<>> THEN NotATarget
        ELSE [ok |-> TRUE, name |-> Join(name), spec |-> spec]

RECURSIVE IndexFrom(_, _)
IndexFrom(lines, index) ==
    IF lines = <<>> THEN index
    ELSE LET parsed == parse_pkg_line(Head(lines))
         IN  IndexFrom(Tail(lines),
                       IF parsed.ok THEN Put(index, parsed.name, parsed.spec)
                       ELSE index)

build_targets_index(lines) == IndexFrom(lines, Empty)

\* ------------------------------------------------------------ filter, evaluate
\* filter_packages that lets every occurrence through.
filter_packages_all(packages, targets, all) == packages

filter_packages(packages, targets, all) ==
    IF all \/ targets = Empty THEN packages
    ELSE SelectSeq(packages, LAMBDA pkg : pkg.name \in DOMAIN targets)

\* <<covered, status>> with an unparsable occurrence passed off as not covered.
evaluation_outcome_lenient(target_version, npmspec, current_version) ==
    IF target_version.ok /\ npmspec.ok
    THEN IF version_in_spec(target_version, npmspec)
         THEN <<"True", "covered">> ELSE <<"False", "not_covered">>
    ELSE IF target_version.ok
         THEN IF current_version.ok /\ version_equal(current_version, target_version)
              THEN <<"True", "covered">> ELSE <<"False", "not_covered">>
         ELSE <<"None", "invalid_target">>

\* <<covered, status>> of an occurrence that has a target.
evaluation_outcome(target_version, npmspec, current_version) ==
    IF target_version.ok /\ npmspec.ok
    THEN IF version_in_spec(target_version, npmspec)
         THEN <<"True", "covered">> ELSE <<"False", "not_covered">>
    ELSE IF target_version.ok
         THEN IF current_version.ok
              THEN IF version_equal(current_version, target_version)
                   THEN <<"True", "covered">> ELSE <<"False", "not_covered">>
              ELSE <<"None", "invalid_current">>
         ELSE <<"None", "invalid_target">>

evaluate_package(pkg, targets) ==
    LET target_spec == IF pkg.name \in DOMAIN targets THEN targets[pkg.name]
                       ELSE NoText
        outcome == IF target_spec # NoText
                   THEN evaluation_outcome(safe_version(target_spec),
                                           safe_npmspec(pkg.version),
                                           safe_version(pkg.version))
                   ELSE <<"None", "no_target">>
    IN  [name |-> pkg.name, current_spec |-> pkg.version,
         target_version |-> target_spec, path |-> pkg.path,
         entry_type |-> pkg.entry_type, covered |-> outcome[1], status |-> outcome[2]]

evaluate_packages(packages, targets) ==
    [i \in 1..Len(packages) |-> evaluate_package(packages[i], targets)]

\* ------------------------------------------------------------ rows, report
\* A row that leaves out which lock it was read from.
audit_row_unsigned(repo_key, metadata, lock_relative_path, evaluation) ==
    [project |-> metadata.project, repository |-> metadata.repositoryName,
     branch |-> metadata.branch, package_json_path |-> metadata.path,
     repo_key |-> repo_key, lock_signature |-> "",
     lock_source |-> metadata.source, package_lock_path |-> lock_relative_path,
     package_path |-> evaluation.path, entry_type |-> evaluation.entry_type,
     package_name |-> evaluation.name, current_spec |-> evaluation.current_spec,
     target_version |-> evaluation.target_version,
     covered |-> evaluation.covered, status |-> evaluation.status]

audit_row(repo_key, metadata, lock_relative_path, evaluation) ==
    [project |-> metadata.project, repository |-> metadata.repositoryName,
     branch |-> metadata.branch, package_json_path |-> metadata.path,
     repo_key |-> repo_key, lock_signature |-> metadata.lockSignature,
     lock_source |-> metadata.source, package_lock_path |-> lock_relative_path,
     package_path |-> evaluation.path, entry_type |-> evaluation.entry_type,
     package_name |-> evaluation.name, current_spec |-> evaluation.current_spec,
     target_version |-> evaluation.target_version,
     covered |-> evaluation.covered, status |-> evaluation.status]

lock_relative_path(lock_manifest, lock_signature) ==
    IF DHas(lock_manifest, lock_signature) /\ DGet(lock_manifest, lock_signature).path # ""
    THEN DGet(lock_manifest, lock_signature).path
    ELSE PACKAGE_LOCK_SUBDIR \o "/" \o lock_signature \o ".json"

\* The rows of one repository cut down to the first evaluation.
audit_rows_once(repo_key, metadata, lock_manifest, evaluated) ==
    [i \in 1..(IF evaluated = <<>> THEN 0 ELSE 1) |->
        audit_row(repo_key, metadata,
                  lock_relative_path(lock_manifest, metadata.lockSignature),
                  evaluated[i])]

\* The rows of one repository, one per evaluation.
audit_rows(repo_key, metadata, lock_manifest, evaluated) ==
    [i \in 1..Len(evaluated) |->
        audit_row(repo_key, metadata,
                  lock_relative_path(lock_manifest, metadata.lockSignature),
                  evaluated[i])]

\* The covered cell written from the truth value alone.
covered_cell_truthy(covered) == IF covered = "True" THEN "true" ELSE "false"

\* The covered cell of the CSV.
covered_cell(covered) ==
    IF covered = "True" THEN "true" ELSE IF covered = "False" THEN "false" ELSE ""

write_report(written) ==
    [i \in 1..Len(written) |->
        [written[i] EXCEPT !.covered = covered_cell(written[i].covered)]]

\* ------------------------------------------------------------ audit inputs
\* Occurrence strings and target strings, as the sequences of their characters.
Texts ==
    [v200 |-> <<"2", ".", "0", ".", "0">>,
     v231 |-> <<"2", ".", "3", ".", "1">>,
     v300 |-> <<"3", ".", "0", ".", "0">>,
     v199 |-> <<"1", ".", "9", ".", "9">>,
     v120 |-> <<"1", ".", "2", ".", "0">>,
     v129 |-> <<"1", ".", "2", ".", "9">>,
     v130 |-> <<"1", ".", "3", ".", "0">>,
     v100 |-> <<"1", ".", "0", ".", "0">>,
     v020 |-> <<"0", ".", "2", ".", "0">>,
     v025 |-> <<"0", ".", "2", ".", "5">>,
     v030 |-> <<"0", ".", "3", ".", "0">>,
     v13 |-> <<"1", ".", "3">>,
     v0130 |-> <<"0", "1", ".", "3", ".", "0">>,
     vLocal |-> <<"f", "i", "l", "e", ":", ".", ".", "/", "l", "o", "c", "a", "l">>,
     vLatest |-> <<"l", "a", "t", "e", "s", "t">>]

Caret(text) == <<"^">> \o text

Tilde(text) == <<"~">> \o text

AtLeast(text) == <<">", "=">> \o text

Below(text) == <<"<">> \o text

\* What a lock document records for an occurrence.
OccurrenceSpecs ==
    {Caret(Texts.v200), Tilde(Texts.v120), Caret(Texts.v130), Caret(Texts.v300), Caret(Texts.v020),
     AtLeast(Texts.v200), Below(Texts.v200), Texts.v231, Texts.v300, Texts.v199, Texts.v129,
     Texts.v130, Texts.v13, Texts.v0130, Texts.vLocal, Unknown}

\* What a line of the targets file gives after the @.
TargetSpecs ==
    {Texts.v231, Texts.v300, Texts.v199, Texts.v129, Texts.v130, Texts.v200, Texts.v120, Texts.v025,
     Texts.v030, Texts.v13, Caret(Texts.v200), Tilde(Texts.v120), Texts.vLatest}

TargetLine(name, spec) == <<name, "@">> \o spec

\* packages.txt of the test of run, and other target files.
TestTargets == File(<<TargetLine("left-pad", Texts.v130), TargetLine("bar", Texts.v200)>>)

LeftPadTarget == File(<<TargetLine("left-pad", Texts.v130)>>)

CommentsOnly == File(<<<<"#", " ", "left-pad", "@">> \o Texts.v130, <<" ">>>>)

\* A targets file with a scoped name, lines that are no target (no @, no
\* name, no spec, blank, comment), a package named twice, and padding.
MixedTargets ==
    File(<< <<"@", "scope/pkg", "@">> \o Texts.v130,
            <<"pkg">>,
            <<"@">> \o Texts.v200,
            <<"pkg", "@">>,
            <<" ", " ">>,
            <<" ", "#", "bar", "@">> \o Texts.v200,
            TargetLine("pkg", Texts.v200),
            <<" ", "left-pad", " ", "@", " ">> \o Texts.v130 \o <<" ">>,
            TargetLine("pkg", Texts.v231) >>)

TargetFiles ==
    {NoFile, TestTargets, LeftPadTarget, CommentsOnly, MixedTargets}
    \cup {File(<<TargetLine("pkg", t)>>) : t \in TargetSpecs}

Name(text) == JStr(<<text>>)

\* lock_content of the tests: the flat generation, one root dependency
\* left-pad@^1.3.0 resolved at node_modules/left-pad.
TestLock ==
    << <<"name", Name("demo")>>, <<"version", JStr(Texts.v100)>>,
       <<"packages", JDict(<<
           << <<>>, JDict(<< <<"name", Name("demo")>>, <<"version", JStr(Texts.v100)>>,
                             <<"dependencies",
                               JDict(<< <<"left-pad", JStr(Caret(Texts.v130))>> >>)>> >>) >>,
           << <<"node_modules/", "left-pad">>,
              JDict(<< <<"version", JStr(Texts.v130)>> >>) >>,
           << <<"node_modules/", "foo">>,
              JDict(<< <<"name", Name("foo")>>, <<"version", JStr(Texts.v200)>>,
                       <<"peerDependencies",
                         JDict(<< <<"bar", JStr(Caret(Texts.v300))>> >>)>> >>) >> >>)>> >>

\* A flat lock whose root declares pkg with the given spec, every kind of
\* dependency map, a structured spec and an unnamed entry without version.
FlatLock(spec) ==
    << <<"name", Name("demo")>>, <<"version", JStr(Texts.v100)>>,
       <<"packages", JDict(<<
           << <<>>, JDict(<< <<"version", JStr(Texts.v100)>>,
                             <<"dependencies", JDict(<< <<"pkg", JStr(spec)>> >>)>>,
                             <<"devDependencies",
                               JDict(<< <<"pkg", JStr(spec)>>,
                                        <<"tool", JDict(<< <<"specifier",
                                                            JStr(Caret(Texts.v200))>> >>)>> >>)>>,
                             <<"optionalDependencies",
                               JDict(<< <<"opt", JNull>> >>)>> >>) >>,
           << <<"node_modules/", "pkg">>, JDict(<< <<"version", JStr(Texts.v231)>> >>) >>,
           << <<"node_modules/", "pkg", "/", "node_modules/", "tool">>,
              JDict(<< <<"peerDependencies",
                         JDict(<< <<"pkg", JStr(spec)>> >>)>> >>) >> >>)>> >>

\* The nested generation: P at the root, under Q, and under Q/R.
NestedLock ==
    << <<"name", Name("demo")>>, <<"version", JStr(Texts.v100)>>,
       <<"dependencies", JDict(<<
           <<"P", JDict(<< <<"version", JStr(Texts.v130)>> >>)>>,
           <<"Q", JDict(<< <<"version", JStr(Texts.v200)>>,
                           <<"requires", JDict(<< <<"P", JStr(Caret(Texts.v130))>>,
                                                  <<"R", JStr(Tilde(Texts.v120))>> >>)>>,
                           <<"dependencies", JDict(<<
                               <<"P", JDict(<< <<"version", JStr(Texts.v130)>> >>)>>,
                               <<"R", JDict(<<
                                   <<"version", JStr(Texts.v120)>>,
                                   <<"requires",
                                     JDict(<< <<"P", JStr(Caret(Texts.v130))>> >>)>>,
                                   <<"dependencies", JDict(<<
                                       <<"P", JDict(<< <<"version",
                                                         JStr(Texts.v130)>> >>)>> >>)>>
                                 >>)>> >>)>> >>)>> >>)>> >>

\* A nested lock in which two entries compose the same path: the root key
\* "Q/node_modules/R" and R under Q both declare P at the same place.
TwiceLock ==
    << <<"name", Name("demo")>>, <<"version", JStr(Texts.v100)>>,
       <<"dependencies", JDict(<<
           <<"P", JDict(<< <<"version", JStr(Texts.v130)>> >>)>>,
           <<"Q/node_modules/R", JDict(<<
               <<"version", JStr(Texts.v120)>>,
               <<"dependencies", JDict(<< <<"P", JStr(Texts.v130)>> >>)>> >>)>>,
           <<"Q", JDict(<<
               <<"version", JStr(Texts.v200)>>,
               <<"dependencies", JDict(<<
                   <<"P", JDict(<< <<"version", JStr(Texts.v200)>> >>)>>,
                   <<"R", JDict(<<
                       <<"version", JStr(Texts.v120)>>,
                       <<"dependencies",
                         JDict(<< <<"P", JStr(Texts.v130)>> >>)>> >>)>> >>)>> >>)>> >>)>> >>

\* A document with neither map.
BareLock == << <<"name", Name("demo")>>, <<"version", JStr(Texts.v100)>> >>

\* Documents with both maps: the packages of TestLock, those packages emptied,
\* or a null in their place, each beside the dependencies of NestedLock.
WithPackages(packages) ==
    << <<"name", Name("demo")>>, <<"version", JStr(Texts.v100)>>,
       <<"packages", packages>>,
       <<"dependencies", ValueOf(NestedLock, "dependencies")>> >>

BothLock == WithPackages(ValueOf(TestLock, "packages"))

EmptyPackagesLock == WithPackages(JDict(<<>>))

NullPackagesLock == WithPackages(JNull)

\* The lock documents of the cache, each with the signature it is stored under
\* (the digest of its text, written here by the name of the document).
StoredLock(label, content) ==
    [signature |-> "sha256(" \o label \o ")", content |-> content]

StoredLocks ==
    <<StoredLock("TestLock", TestLock), StoredLock("NestedLock", NestedLock),
      StoredLock("TwiceLock", TwiceLock), StoredLock("BareLock", BareLock),
      StoredLock("BothLock", BothLock),
      StoredLock("EmptyPackagesLock", EmptyPackagesLock),
      StoredLock("NullPackagesLock", NullPackagesLock)>>

\* run has not started.
AuditIdle ==
    /\ audit_pc = "idle" /\ targets_idx = Empty /\ include_all = FALSE
    /\ pending = {} /\ loaded_lock = None /\ flat_packages = <<>>
    /\ evaluations = <<>> /\ rows = <<>> /\ audited_repos = {}
    /\ missing_locks = <<>> /\ report = <<>>


\* --------------------------------------------- cache_utils on any value
\* A value handed to signature_for_json: a JSON value as the audit reads it
\* (the text of a scalar in pieces), a list, whose items are kept as pairs with
\* an empty key, or an object json cannot serialise, kept as what str() gives
\* for it.
JList(items) == [t |-> "list", s |-> <<>>, d |-> [i \in 1..Len(items) |-> <<"", items[i]>>]]

JObject(text) == [t |-> "object", s |-> <<text>>, d |-> <<>>]

\* The items of a dict in the order it holds them.
items_unsorted(pairs) == pairs

\* sort_keys=True: the items of a dict by key.
items_sorted(pairs) ==
    Concat([k \in 1..Len(SortedKeys) |->
               IF HasKey(pairs, SortedKeys[k])
               THEN << <<SortedKeys[k], ValueOf(pairs, SortedKeys[k])>> >>
               ELSE <<>>])

RECURSIVE Separated(_)
Separated(texts) ==
    IF texts = <<>> THEN ""
    ELSE IF Len(texts) = 1 THEN texts[1]
    ELSE texts[1] \o "," \o Separated(Tail(texts))

\* json.dumps(value, sort_keys=True, separators=(",", ":")), with default=str
\* or without it: ok is FALSE where json raises TypeError.
RECURSIVE json_dumps(_, _)
json_dumps(value, default_str) ==
    IF value.t = "str" THEN [ok |-> TRUE, text |-> "\"" \o Join(value.s) \o "\""]
    ELSE IF value.t = "null" THEN [ok |-> TRUE, text |-> "null"]
    ELSE IF value.t = "object"
    THEN (IF default_str THEN [ok |-> TRUE, text |-> "\"" \o Join(value.s) \o "\""]
          ELSE [ok |-> FALSE, text |-> ""])
    ELSE LET items == IF value.t = "dict" THEN items_sorted(value.d) ELSE value.d
             parts == [i \in 1..Len(items) |-> json_dumps(items[i][2], default_str)]
             texts == [i \in 1..Len(items) |->
                          (IF value.t = "dict" THEN "\"" \o items[i][1] \o "\":" ELSE "")
                          \o parts[i].text]
         IN  [ok |-> \A i \in 1..Len(items) : parts[i].ok,
              text |-> (IF value.t = "dict" THEN "{" ELSE "[")
                       \o Separated(texts)
                       \o (IF value.t = "dict" THEN "}" ELSE "]")]

\* signature_for_json without its except clause.
signature_for_json_value_strict(value) ==
    IF json_dumps(value, FALSE).ok
    THEN "sha256(" \o json_dumps(value, FALSE).text \o ")"
    ELSE "TypeError"

\* signature_for_json on any value; "TypeError" stands for the exception
\* leaving the function.
signature_for_json_value(value) ==
    IF json_dumps(value, FALSE).ok
    THEN "sha256(" \o json_dumps(value, FALSE).text \o ")"
    ELSE IF json_dumps(value, TRUE).ok
         THEN "sha256(" \o json_dumps(value, TRUE).text \o ")"
         ELSE "TypeError"

\* Values to sign: flat and nested documents, each also with its keys in
\* another order at every level, lists, scalars, and documents that hold an
\* object json cannot serialise.
Pair(name, version) == JDict(<< <<"name", Name(name)>>, <<"version", Name(version)>> >>)

PairTurned(name, version) == JDict(<< <<"version", Name(version)>>, <<"name", Name(name)>> >>)

Values ==
    {Pair("demo", "1.0.0"), PairTurned("demo", "1.0.0"), Pair("demo", "2.0.0"),
     JDict(<< <<"name", Name("demo")>>,
              <<"dependencies", Pair("a", "1")>>,
              <<"version", JList(<<Name("x"), Pair("b", "2"), JNull>>)>> >>),
     JDict(<< <<"version", JList(<<Name("x"), PairTurned("b", "2"), JNull>>)>>,
              <<"dependencies", PairTurned("a", "1")>>,
              <<"name", Name("demo")>> >>),
     JDict(<< <<"name", Name("demo")>>,
              <<"dependencies", Pair("a", "1")>>,
              <<"version", JList(<<Pair("b", "2"), Name("x"), JNull>>)>> >>),
     JDict(<< <<"name", Name("demo")>>, <<"version", JObject("2024-01-01")>> >>),
     JDict(<< <<"version", JObject("2024-01-01")>>, <<"name", Name("demo")>> >>),
     JDict(<< <<"name", Name("demo")>>, <<"version", Name("2024-01-01")>> >>),
     JList(<<Pair("demo", "1.0.0"), JObject("2024-01-01")>>),
     JList(<<PairTurned("demo", "1.0.0"), Name("2024-01-01")>>),
     JList(<<>>), JDict(<<>>), Name("demo"), JNull, JObject("demo")}

\* Records of the repository cache: ids, branches and paths, some of which
\* hold the character the key is joined with.
RepoRecords ==
    {[id |-> i, name |-> "Repo", project |-> "proj", path |-> p, branch |-> b] :
        i \in {"1", "2"}, b \in {"main", "a", "a|/b"},
        p \in {"/package.json", "/b|/package.json"}}

NotCalled == <<>>

\* The two runs, neither started.
Runs == {1, 2}

NotStarted ==
    [r \in Runs |-> [pc |-> "idle", idx |-> 1, manifest |-> <<>>, lock_repo_index |-> Empty,
                     pkg_to_lock |-> Empty, generated |-> {}]]

\* generate_lock_with_npm has not been called.
FallbackIdle ==
    [pc |-> "idle", document |-> None, package_content |-> None, effective |-> None,
     msgs |-> <<>>]

\* Python's None where a list of repositories is expected, and a list.
NoList == [found |-> FALSE, repos |-> <<>>]

List(items) == [found |-> TRUE, repos |-> items]

\* get_repositories has not been called; the repository cache is the file
\* step 01 wrote.
ListingIdle ==
    [pc |-> "idle", cache_file |-> "list", remote |-> <<>>, page_size |-> 1,
     force |-> FALSE, requests |-> <<>>, batches |-> <<>>, aggregated |-> <<>>,
     skip |-> 0, failed |-> FALSE, returned |-> NoList,
     before |-> [cache_file |-> "list", repos |-> <<>>]]

CallsIdle == fallback = FallbackIdle /\ listing = ListingIdle

UtilsIdle ==
    /\ runs = NotStarted
    /\ document = JNull /\ twin = JNull /\ signatures = NotCalled
    /\ records = <<Item1, Item2>> /\ repo_keys = NotCalled
    /\ CallsIdle


\* A cache root written by this version only, with every index file readable.
NoOlderFiles ==
    /\ packages_cache_older = Empty /\ package_lock_manifest_older = <<>>
    /\ package_lock_cache_pkl = <<>> /\ damage = Intact

Init ==
    /\ NoOlderFiles
    /\ repos \in RepoLists
    /\ upstream = UpstreamAtStart
    /\ package_json_docs = Empty /\ package_lock_docs = Empty
    /\ packages_cache = Empty /\ package_json_repo_index = Empty
    /\ package_lock_manifest = <<>> /\ package_lock_repo_index = Empty
    /\ pc = "idle" /\ step = 0 /\ force = FALSE /\ idx = 1
    /\ manifest = Empty /\ repo_index = Empty /\ packages_repo_index = Empty
    /\ lock_repo_index = Empty /\ pkg_to_lock = Empty
    /\ new_downloads = 0 /\ reused = 0 /\ downloaded = 0 /\ generated = 0
    /\ failures = Empty /\ fetch_calls = Empty /\ npm_calls = Empty
    /\ settled = 0 /\ clean = TRUE /\ baseline = NoBaseline /\ edits = 0
    /\ packages_file = NoFile /\ include_all_flag = FALSE /\ AuditIdle
    /\ UtilsIdle

Next ==
    \/ \E f \in BOOLEAN : StartPackages(f)
    \/ PackagesReuse
    \/ PackagesFetchFails
    \/ PackagesDownload
    \/ FinishPackages
    \/ \E f \in BOOLEAN : StartLock(f)
    \/ LockNoPackageJson
    \/ LockReuseOwn
    \/ LockReuseMapped
    \/ LockDownload
    \/ LockPackageJsonGone
    \/ LockGenerate
    \/ LockGenerateTimeout
    \/ FinishLock
    \/ UpstreamChanges
    \/ DocumentDamaged

Spec == Init /\ [][Next]_vars

\* ------------------------------------------------------------ run (step 04)
\* run(), up to the loop over the lock repo index.
AuditStart ==
    /\ audit_pc = "idle"
    /\ targets_idx' = build_targets_index(load_target_lines(packages_file))
    /\ include_all' = (include_all_flag \/ targets_idx' = Empty)
    /\ IF ~packages_file.exists \/ package_lock_repo_index = Empty
       THEN audit_pc' = "fatal" /\ pending' = {}
       ELSE audit_pc' = "loop" /\ pending' = DOMAIN package_lock_repo_index
    /\ UNCHANGED <<packages_file, include_all_flag, loaded_lock, flat_packages,
                   evaluations, rows, audited_repos, missing_locks, report>>
    /\ UNCHANGED beyond_audit

\* One iteration for a repository whose lock document loads: flatten, filter,
\* evaluate, one row per evaluation.
AuditRepo ==
    /\ audit_pc = "loop"
    /\ \E repo_key \in pending :
          /\ package_lock_repo_index[repo_key].lockSignature # ""
          /\ loaded_lock' = load_json_document(
                                package_lock_docs,
                                package_lock_repo_index[repo_key].lockSignature)
          /\ loaded_lock' # None
          /\ pending' = pending \ {repo_key}
          /\ audited_repos' = audited_repos \cup {repo_key}
          /\ flat_packages' = flatten_package_lock_content(loaded_lock')
          /\ evaluations' =
                evaluate_packages(filter_packages(flat_packages', targets_idx, include_all),
                                  targets_idx)
          /\ rows' = rows \o audit_rows(repo_key, package_lock_repo_index[repo_key],
                                         package_lock_manifest, evaluations')
    /\ UNCHANGED <<packages_file, include_all_flag, audit_pc, targets_idx,
                   include_all, missing_locks, report>>
    /\ UNCHANGED beyond_audit

\* One iteration for a repository whose lock document does not load.
AuditMissingLock ==
    /\ audit_pc = "loop"
    /\ \E repo_key \in pending :
          /\ package_lock_repo_index[repo_key].lockSignature # ""
          /\ load_json_document(package_lock_docs,
                                package_lock_repo_index[repo_key].lockSignature) = None
          /\ pending' = pending \ {repo_key}
          /\ missing_locks' = Append(missing_locks, repo_key)
    /\ UNCHANGED <<packages_file, include_all_flag, audit_pc, targets_idx,
                   include_all, loaded_lock, flat_packages, evaluations, rows,
                   audited_repos, report>>
    /\ UNCHANGED beyond_audit

\* After the loop: write_report.
AuditFinish ==
    /\ audit_pc = "loop" /\ pending = {}
    /\ report' = write_report(rows)
    /\ audit_pc' = "done"
    /\ UNCHANGED <<packages_file, include_all_flag, targets_idx, include_all,
                   pending, loaded_lock, flat_packages, evaluations, rows,
                   audited_repos, missing_locks>>
    /\ UNCHANGED beyond_audit

\* The cache as get_packagesjson and get_package_lock leave it for the
\* repositories of the list, every manifest being MA: the first repository
\* holds the lock `first`; the second one, if indexed, holds TestLock.
ManifestSignature == signature_for_json(MA)

LockIndexEntry(item, stored) ==
    build_lock_repo_metadata(item, ManifestSignature, stored.signature, "repository")

AuditCache(first, second) ==
    /\ repos = <<Item1, Item2>>
    /\ upstream = UpstreamAtStart
    /\ package_json_docs = save_json_document(Empty, ManifestSignature, MA)
    /\ packages_cache =
          update_manifest_entry(
              update_manifest_entry(Empty, ManifestSignature, build_repo_key(Item1)),
              ManifestSignature, build_repo_key(Item2))
    /\ package_json_repo_index =
          Put(Put(Empty, build_repo_key(Item1),
                  build_repo_metadata(Item1, ManifestSignature)),
              build_repo_key(Item2), build_repo_metadata(Item2, ManifestSignature))
    /\ package_lock_docs =
          IF second = "stored"
          THEN save_json_document(
                   save_json_document(Empty, first.signature, first.content),
                   StoredLocks[1].signature, StoredLocks[1].content)
          ELSE IF second = "malformed"
          THEN Put(save_json_document(Empty, first.signature, first.content),
                   StoredLocks[1].signature, Corrupt)
          ELSE save_json_document(Empty, first.signature, first.content)
    /\ package_lock_manifest =
          IF second = "absent"
          THEN update_lock_manifest_entry(<<>>, first.signature, build_repo_key(Item1),
                                          ManifestSignature, "repository")
          ELSE update_lock_manifest_entry(
                   update_lock_manifest_entry(<<>>, first.signature,
                                              build_repo_key(Item1),
                                              ManifestSignature, "repository"),
                   StoredLocks[1].signature, build_repo_key(Item2),
                   ManifestSignature, "repository")
    /\ package_lock_repo_index =
          IF second = "absent"
          THEN Put(Empty, build_repo_key(Item1), LockIndexEntry(Item1, first))
          ELSE Put(Put(Empty, build_repo_key(Item1), LockIndexEntry(Item1, first)),
                   build_repo_key(Item2), LockIndexEntry(Item2, StoredLocks[1]))

\* No step is running.
PipelineIdle ==
    /\ NoOlderFiles
    /\ pc = "idle" /\ step = 0 /\ force = FALSE /\ idx = 1
    /\ manifest = Empty /\ repo_index = Empty /\ packages_repo_index = Empty
    /\ lock_repo_index = Empty /\ pkg_to_lock = Empty
    /\ new_downloads = 0 /\ reused = 0 /\ downloaded = 0 /\ generated = 0
    /\ failures = Empty /\ fetch_calls = Empty /\ npm_calls = Empty
    /\ settled = 0 /\ clean = TRUE /\ baseline = NoBaseline /\ edits = 0

\* What the second repository of the list holds in the lock cache: no index
\* entry, an entry whose document is stored, an entry whose document is gone,
\* an entry whose document does not decode.
SecondRepository == {"absent", "stored", "missing", "malformed"}

AuditInit ==
    /\ PipelineIdle
    /\ AuditIdle
    /\ UtilsIdle
    /\ packages_file \in TargetFiles
    /\ include_all_flag \in BOOLEAN
    /\ \/ \E i \in 1..Len(StoredLocks), second \in SecondRepository :
             AuditCache(StoredLocks[i], second)
       \/ \E spec \in OccurrenceSpecs, second \in SecondRepository :
             AuditCache(StoredLock("FlatLock " \o Join(spec), FlatLock(spec)), second)
       \/ /\ repos = <<Item1, Item2>> /\ upstream = UpstreamAtStart
          /\ package_json_docs = Empty /\ package_lock_docs = Empty
          /\ packages_cache = Empty /\ package_json_repo_index = Empty
          /\ package_lock_manifest = <<>> /\ package_lock_repo_index = Empty

AuditNext ==
    \/ AuditStart
    \/ AuditRepo
    \/ AuditMissingLock
    \/ AuditFinish

SpecAudit == AuditInit /\ [][AuditNext]_vars

\* ----------------------------------------------------- calls of cache_utils
\* signature_for_json is called on the two values, and on the first once more.
SignValues ==
    /\ signatures = NotCalled
    /\ signatures' = <<signature_for_json_value(document), signature_for_json_value(twin),
                       signature_for_json_value(document)>>
    /\ UNCHANGED <<document, twin, records, repo_keys, fallback, listing>>
    /\ UNCHANGED <<pipeline, audit, runs>>

\* build_repo_key is called on the two records by step 02 and again by step 03.
KeyRecords ==
    /\ repo_keys = NotCalled
    /\ repo_keys' = [step_02 |-> <<build_repo_key(records[1]), build_repo_key(records[2])>>,
                     step_03 |-> <<build_repo_key(records[1]), build_repo_key(records[2])>>]
    /\ UNCHANGED <<document, twin, signatures, records, fallback, listing>>
    /\ UNCHANGED <<pipeline, audit, runs>>

UtilsInit ==
    /\ PipelineIdle /\ repos = <<>> /\ upstream = UpstreamAtStart
    /\ package_json_docs = Empty /\ package_lock_docs = Empty
    /\ packages_cache = Empty /\ package_json_repo_index = Empty
    /\ package_lock_manifest = <<>> /\ package_lock_repo_index = Empty
    /\ packages_file = NoFile /\ include_all_flag = FALSE /\ AuditIdle
    /\ signatures = NotCalled /\ repo_keys = NotCalled
    /\ runs = NotStarted /\ CallsIdle
    /\ \/ document \in Values /\ twin \in Values /\ records = <<Item1, Item2>>
       \/ document = JNull /\ twin = JNull /\ records \in RepoRecords \X RepoRecords

UtilsNext ==
    \/ SignValues
    \/ KeyRecords

SpecUtils == UtilsInit /\ [][UtilsNext]_vars


\* ------------------------------------------- step_01_get_repositories
\* repos_cache.json is the variable repos where the file holds a JSON list;
\* listing.cache_file tells that case from a file that is missing, does not
\* decode, or cannot be read.
CacheFiles == {"list", "missing", "malformed", "unreadable"}

\* load_repos_cache: None for a missing file and for one that does not decode.
load_repos_cache(cache_file, cached) ==
    IF cache_file = "list" THEN List(cached) ELSE NoList

\* open() or the decoding of the bytes fails: nothing in the way up catches it
\* before run().
load_repos_cache_raises(cache_file) == cache_file = "unreadable"

\* The cache kept when the listing came back empty.
save_repos_cache_unless_empty(cached, fetched) ==
    IF fetched = <<>> THEN cached ELSE fetched

\* save_repos_cache: the file is written whole.
save_repos_cache(cached, fetched) == fetched

\* What one POST of the code search can end in.
ListingOutcomes == {"ok", "RequestException", "ValueError"}

Min(a, b) == IF a <= b THEN a ELSE b

\* fetch_repositories(skip, top) against a service that holds `remote`: the
\* results of the page, or [] when the request or the decoding failed.
fetch_repositories(remote, skip, top, outcome) ==
    IF outcome = "ok" THEN SubSeq(remote, skip + 1, Min(skip + top, Len(remote)))
    ELSE <<>>

\* The cached list taken only if it has items.
cache_usable_if_filled(cached) == cached.found /\ cached.repos # <<>>

\* `cached is not None`
cache_usable(cached) == cached.found

\* The loop of fetch_all_repositories left only on an empty page.
last_page_if_empty(batch, page_size) == batch = <<>>

\* The two breaks of fetch_all_repositories.
last_page(batch, page_size) == batch = <<>> \/ Len(batch) < page_size

\* Every pipeline variable but the repository cache.
beyond_repos ==
    <<upstream, files, older, pc, step, force, idx, locals, counters, fetch_calls,
      npm_calls, settled, clean, baseline, edits>>

\* get_repositories(force), up to the first request.
GetRepositories(f) ==
    /\ listing.pc \in {"idle", "done", "raised"}
    /\ LET cached == load_repos_cache(listing.cache_file, repos)
           started == [listing EXCEPT
                          !.force = f, !.requests = <<>>, !.batches = <<>>,
                          !.aggregated = <<>>, !.skip = 0, !.failed = FALSE,
                          !.returned = NoList,
                          !.before = [cache_file |-> listing.cache_file, repos |-> repos]]
       IN  listing' =
              IF ~f /\ load_repos_cache_raises(listing.cache_file)
              THEN [started EXCEPT !.pc = "raised"]
              ELSE IF ~f /\ cache_usable(cached)
              THEN [started EXCEPT !.pc = "done", !.returned = cached]
              ELSE [started EXCEPT !.pc = "paging"]
    /\ UNCHANGED <<repos, beyond_repos, audit, runs>>
    /\ UNCHANGED <<document, twin, signatures, records, repo_keys, fallback>>

\* One turn of the loop of fetch_all_repositories.
FetchPage ==
    /\ listing.pc = "paging"
    /\ \E outcome \in ListingOutcomes :
          LET batch == fetch_repositories(listing.remote, listing.skip,
                                          listing.page_size, outcome)
          IN  listing' =
                 [listing EXCEPT
                     !.requests = Append(@, [skip |-> listing.skip,
                                             top |-> listing.page_size]),
                     !.batches = Append(@, batch),
                     !.failed = (outcome # "ok"),
                     !.aggregated = @ \o batch,
                     !.skip = @ + Len(batch),
                     !.pc = IF last_page(batch, listing.page_size) THEN "fetched"
                            ELSE "paging"]
    /\ UNCHANGED <<repos, beyond_repos, audit, runs>>
    /\ UNCHANGED <<document, twin, signatures, records, repo_keys, fallback>>

\* get_repositories after fetch_all_repositories returned: save_repos_cache.
SaveRepositories ==
    /\ listing.pc = "fetched"
    /\ repos' = save_repos_cache(repos, listing.aggregated)
    /\ listing' = [listing EXCEPT !.pc = "done", !.cache_file = "list",
                                  !.returned = List(listing.aggregated)]
    /\ UNCHANGED <<beyond_repos, audit, runs>>
    /\ UNCHANGED <<document, twin, signatures, records, repo_keys, fallback>>

\* What the code search holds, and the page sizes of the tests.
RemoteLists == {<<>>, <<Item1>>, <<Item1, Item2>>, <<Item1, Item2, Item3>>}

PageSizes == {1, 2}

CachedLists == {<<>>, <<Item3>>, <<Item1, Item2>>}

ListingInit ==
    /\ PipelineIdle /\ upstream = UpstreamAtStart
    /\ package_json_docs = Empty /\ package_lock_docs = Empty
    /\ packages_cache = Empty /\ package_json_repo_index = Empty
    /\ package_lock_manifest = <<>> /\ package_lock_repo_index = Empty
    /\ packages_file = NoFile /\ include_all_flag = FALSE /\ AuditIdle
    /\ runs = NotStarted
    /\ document = JNull /\ twin = JNull /\ signatures = NotCalled
    /\ records = <<Item1, Item2>> /\ repo_keys = NotCalled
    /\ fallback = FallbackIdle
    /\ \E cache_file \in CacheFiles, remote \in RemoteLists, page_size \in PageSizes :
          /\ listing = [ListingIdle EXCEPT !.cache_file = cache_file,
                                           !.remote = remote, !.page_size = page_size]
          /\ IF cache_file = "list" THEN repos \in CachedLists ELSE repos = <<>>

ListingNext ==
    \/ \E f \in BOOLEAN : GetRepositories(f)
    \/ FetchPage
    \/ SaveRepositories

SpecListing == ListingInit /\ [][ListingNext]_vars

\* ------------------------------------------- the manifest handed to npm
\* Dependency names, in pieces: a private scope, a scope that only begins like
\* it, another scope, no scope.
FallbackNames ==
    {<<"@appcross", "/", "ui">>, <<"@appcross", "ing", "/", "ui">>,
     <<"@other", "/", "x">>, <<"left-pad">>}

\* Dependency specs, in pieces, each with what npm takes the spec for
\* (registry range or tag, local path, git, url, workspace).
SpecForms ==
    <<[spec |-> <<"^", "1.3.0">>, kind |-> "registry"],
      [spec |-> <<"latest">>, kind |-> "registry"],
      [spec |-> <<"file:", "../lib">>, kind |-> "path"],
      [spec |-> <<"link:", "../lib">>, kind |-> "path"],
      [spec |-> <<"../", "lib">>, kind |-> "path"],
      [spec |-> <<"workspace:", "*">>, kind |-> "workspace"],
      [spec |-> <<"git+", "https://host/repo.git">>, kind |-> "git"],
      [spec |-> <<"github:", "user/repo">>, kind |-> "git"],
      [spec |-> <<"git:", "//host/repo.git">>, kind |-> "git"],
      [spec |-> <<"user", "/", "repo">>, kind |-> "git"],
      [spec |-> <<"https:", "//host/pkg.tgz">>, kind |-> "url"],
      [spec |-> <<" ", "HTTPS:", "//host/pkg.tgz">>, kind |-> "url"]>>

FallbackSpecs == {JStr(SpecForms[i].spec) : i \in 1..Len(SpecForms)} \cup {JNull}

\* A package.json with one dependency map of one or two entries, with or
\* without workspaces and overrides.
FallbackManifest(workspaces, overrides, key, name, spec, second) ==
    << <<"name", JStr(<<"demo">>)>>, <<"version", JStr(<<"1.0.0">>)>> >>
    \o (IF workspaces THEN << <<"workspaces", JList(<<JStr(<<"packages/*">>)>>)>> >>
        ELSE <<>>)
    \o (IF overrides
        THEN << <<"overrides", JDict(<< << <<"left-pad">>, JStr(<<"1.3.0">>)>> >>)>> >>
        ELSE <<>>)
    \o << <<key, JDict(<< <<name, spec>> >>
                       \o (IF second THEN << << <<"lodash">>, JStr(<<"^", "4.0.0">>)>> >>
                           ELSE <<>>))>> >>

FallbackManifests ==
    {FallbackManifest(workspaces, overrides, key, name, spec, second) :
        workspaces \in BOOLEAN, overrides \in BOOLEAN, key \in DependencyMaps,
        name \in FallbackNames, spec \in FallbackSpecs, second \in BOOLEAN}

\* get_package_lock has loaded the cached manifest of a repository without a
\* lock file and is about to call generate_lock_with_npm on it.
FallbackInit ==
    /\ PipelineIdle /\ repos = <<>> /\ upstream = UpstreamAtStart
    /\ package_json_docs = Empty /\ package_lock_docs = Empty
    /\ packages_cache = Empty /\ package_json_repo_index = Empty
    /\ package_lock_manifest = <<>> /\ package_lock_repo_index = Empty
    /\ packages_file = NoFile /\ include_all_flag = FALSE /\ AuditIdle
    /\ runs = NotStarted
    /\ document = JNull /\ twin = JNull /\ signatures = NotCalled
    /\ records = <<Item1, Item2>> /\ repo_keys = NotCalled
    /\ listing = ListingIdle
    /\ \E content \in FallbackManifests :
          fallback = [pc |-> "loaded", document |-> content, package_content |-> content,
                      effective |-> None, msgs |-> <<>>]

\* generate_lock_with_npm, lines 273-283: the deep copy, the sanitizer, the
\* warnings echoed.  The argument and the cached file are not written.
SanitizeForFallback ==
    /\ fallback.pc = "loaded"
    /\ fallback' =
          [fallback EXCEPT
              !.pc = "sanitized",
              !.effective = sanitize_package_json_for_fallback(
                                fallback.package_content).effective,
              !.msgs = sanitize_package_json_for_fallback(fallback.package_content).msgs]
    /\ UNCHANGED <<document, twin, signatures, records, repo_keys, listing>>
    /\ UNCHANGED <<pipeline, audit, runs>>

FallbackNext == SanitizeForFallback

SpecFallback == FallbackInit /\ [][FallbackNext]_vars

\* ------------------------------------------ a cache root of an older version
\* The entries of the test of the migration: a document under the key "legacy"
\* and an entry with a path and repos.  A second document sits under its own
\* signature, as a version that hashed the same way left it.
LegacyPackage == << <<"name", "legacy-pkg">> >>

LockEntryOlder(content, path, packageSignatures, source) ==
    [content |-> content, path |-> path, repos |-> {}, packageSignatures |-> packageSignatures,
     source |-> source]

FreshRoot ==
    [packages_cache |-> Empty, packages_cache_older |-> Empty,
     package_lock_docs |-> Empty, package_lock_manifest |-> <<>>,
     package_lock_manifest_older |-> <<>>, package_lock_cache_pkl |-> <<>>]

SplitRoot ==
    [packages_cache |->
         ("structured" :> [path |-> PACKAGE_JSON_SUBDIR \o "/structured.json",
                           repos |-> {"repo-a"}]),
     packages_cache_older |->
         ("legacy" :> LegacyPackage) @@ (signature_for_json(MA) :> MAr),
     package_lock_docs |-> ("sourced" :> LA),
     package_lock_manifest |->
         << <<"structured", [path |-> PACKAGE_LOCK_SUBDIR \o "/structured.json",
                             repos |-> {"repo-a"}, packageSignatures |-> {},
                             sources |-> {"generated"}]>> >>,
     package_lock_manifest_older |->
         << <<"legacy", LockEntryOlder(LA, "", {}, "")>>,
            <<signature_for_json(LA), LockEntryOlder(LA, "", {}, "")>>,
            <<"sourced", LockEntryOlder(None, PACKAGE_LOCK_SUBDIR \o "/sourced.json",
                                        {signature_for_json(MA)}, "repository")>> >>,
     package_lock_cache_pkl |-> << <<"pickled", npm_install(MB)>> >>]

PickleRoot ==
    [packages_cache |-> Empty, packages_cache_older |-> Empty,
     package_lock_docs |-> Empty, package_lock_manifest |-> <<>>,
     package_lock_manifest_older |-> <<>>,
     package_lock_cache_pkl |-> << <<"pickled", npm_install(MB)>> >>]

OlderRoots == {FreshRoot, SplitRoot, PickleRoot}

OlderInit ==
    /\ pc = "idle" /\ step = 0 /\ force = FALSE /\ idx = 1
    /\ manifest = Empty /\ repo_index = Empty /\ packages_repo_index = Empty
    /\ lock_repo_index = Empty /\ pkg_to_lock = Empty
    /\ new_downloads = 0 /\ reused = 0 /\ downloaded = 0 /\ generated = 0
    /\ failures = Empty /\ fetch_calls = Empty /\ npm_calls = Empty
    /\ settled = 0 /\ clean = TRUE /\ baseline = NoBaseline /\ edits = 0
    /\ packages_file = NoFile /\ include_all_flag = FALSE /\ AuditIdle
    /\ UtilsIdle
    /\ repos = <<Item1, Item2>> /\ upstream = UpstreamAtStart
    /\ package_json_docs = Empty /\ package_json_repo_index = Empty
    /\ package_lock_repo_index = Empty /\ damage = Intact
    /\ \E root \in OlderRoots :
          /\ packages_cache = root.packages_cache
          /\ packages_cache_older = root.packages_cache_older
          /\ package_lock_docs = root.package_lock_docs
          /\ package_lock_manifest = root.package_lock_manifest
          /\ package_lock_manifest_older = root.package_lock_manifest_older
          /\ package_lock_cache_pkl = root.package_lock_cache_pkl

\* Between two runs an index file is damaged on disk.
IndexDamaged ==
    /\ UNCHANGED beyond_pipeline
    /\ pc # "loop" /\ edits < MaxEdits
    /\ edits' = edits + 1
    /\ \E name \in IndexFiles, kind \in Damages :
          /\ damage[name] = ""
          /\ damage' = [damage EXCEPT ![name] = kind]
    /\ settled' = 0 /\ clean' = TRUE /\ baseline' = NoBaseline
    /\ UNCHANGED <<repos, upstream, files, packages_cache_older,
                   package_lock_manifest_older, package_lock_cache_pkl, pc, step,
                   force, idx, locals, counters, fetch_calls, npm_calls>>

OlderNext ==
    \/ Next
    \/ IndexDamaged

SpecOlder == OlderInit /\ [][OlderNext]_vars

\* ------------------------------------------- two runs of step 03 side by side
\* get_package_lock takes no lock on the cache root: each run reads the indices
\* when it starts (lines 377-379), works on its copies, and writes them whole
\* when its loop is over (lines 471-472).  The document store is shared.
RunItem(r) == repos[runs[r].idx]

RunKey(r) == build_repo_key(RunItem(r))

RunPackageSignature(r) == package_json_repo_index[RunKey(r)].signature

RunInLoop(r) == runs[r].pc = "loop" /\ runs[r].idx <= Len(repos)

RunReusesOwn(r) ==
    reuses_own_lock(FALSE, runs[r].lock_repo_index, RunKey(r), RunPackageSignature(r),
                    package_lock_docs)

RunReusesMapped(r) ==
    reuses_mapped_lock(FALSE, RunPackageSignature(r), runs[r].pkg_to_lock,
                       package_lock_docs)

\* Lines 377-379 of one run.
RunLoads(r) ==
    /\ runs[r].pc = "idle"
    /\ runs' = [runs EXCEPT ![r] =
          [pc |-> "loop", idx |-> 1,
           manifest |-> load_lock_manifest(package_lock_manifest),
           lock_repo_index |-> load_lock_repo_index(package_lock_repo_index),
           pkg_to_lock |-> build_package_to_lock_map(
                               load_lock_manifest(package_lock_manifest)),
           generated |-> {}]]
    /\ UNCHANGED <<pipeline, audit, utils>>

\* One iteration of one run that keeps the lock its own index names.
RunKeepsOwn(r) ==
    /\ RunInLoop(r) /\ RunReusesOwn(r)
    /\ runs' = [runs EXCEPT ![r].idx = @ + 1]
    /\ UNCHANGED <<pipeline, audit, utils>>

\* One iteration of one run that reuses the lock mapped to the manifest signature.
RunKeepsMapped(r) ==
    /\ RunInLoop(r) /\ ~RunReusesOwn(r) /\ RunReusesMapped(r)
    /\ LET mapped_lock_sig == runs[r].pkg_to_lock[RunPackageSignature(r)][1]
           mapped_source == runs[r].pkg_to_lock[RunPackageSignature(r)][2]
       IN  runs' = [runs EXCEPT
              ![r].idx = @ + 1,
              ![r].manifest = update_lock_manifest_entry(@, mapped_lock_sig, RunKey(r),
                                  RunPackageSignature(r), mapped_source),
              ![r].lock_repo_index = Put(@, RunKey(r),
                  build_lock_repo_metadata(RunItem(r), RunPackageSignature(r),
                                           mapped_lock_sig, mapped_source))]
    /\ UNCHANGED <<pipeline, audit, utils>>

\* One iteration of one run that finds no lock upstream and calls npm.
RunGenerates(r) ==
    /\ RunInLoop(r) /\ ~RunReusesOwn(r) /\ ~RunReusesMapped(r)
    /\ upstream[RunKey(r)].lock = None
    /\ \E outcome \in NpmOutcomes \ {"timeout"} :
          LET package_content ==
                  load_json_document(package_json_docs, RunPackageSignature(r))
              lock_content == generate_lock_with_npm(package_content, outcome)
              lock_signature == signature_for_json(lock_content)
          IN  IF generation_failed(lock_content)
              THEN /\ runs' = [runs EXCEPT ![r].idx = @ + 1]
                   /\ UNCHANGED package_lock_docs
              ELSE /\ package_lock_docs' =
                          save_json_document(package_lock_docs, lock_signature,
                                             lock_content)
                   /\ runs' = [runs EXCEPT
                          ![r].idx = @ + 1,
                          ![r].manifest = update_lock_manifest_entry(@, lock_signature,
                              RunKey(r), RunPackageSignature(r), "generated"),
                          ![r].lock_repo_index = Put(@, RunKey(r),
                              build_lock_repo_metadata(RunItem(r),
                                  RunPackageSignature(r), lock_signature, "generated")),
                          ![r].pkg_to_lock = setdefault(@, RunPackageSignature(r),
                                                        <<lock_signature, "generated">>),
                          ![r].generated = @ \cup {RunPackageSignature(r)}]
    /\ UNCHANGED <<repos, upstream, package_json_docs, packages_cache,
                   package_json_repo_index, package_lock_manifest,
                   package_lock_repo_index, older, pc, step, force, idx, locals,
                   counters, fetch_calls, npm_calls, settled, clean, baseline, edits>>
    /\ UNCHANGED <<audit, utils>>

\* Lines 471-475 of one run: both indices written whole, then the test for an
\* empty repo index.
RunSaves(r) ==
    /\ runs[r].pc = "loop" /\ runs[r].idx > Len(repos)
    /\ package_lock_manifest' = runs[r].manifest
    /\ package_lock_repo_index' = runs[r].lock_repo_index
    /\ runs' = [runs EXCEPT ![r].pc =
                    IF runs[r].lock_repo_index = Empty THEN "fatal" ELSE "done"]
    /\ UNCHANGED <<repos, upstream, package_json_docs, package_lock_docs,
                   packages_cache, package_json_repo_index, older, pc, step, force,
                   idx, locals, counters, fetch_calls, npm_calls, settled, clean,
                   baseline, edits>>
    /\ UNCHANGED <<audit, utils>>

\* The cache root after step 02 has indexed the manifests found upstream.
AfterStep02(found) ==
    /\ repos = <<Item1, Item2>> /\ upstream = found
    /\ package_json_docs =
          [sig \in {signature_for_json(found[k].manifest) : k \in RepoKeys} |->
              CHOOSE m \in ManifestContents :
                  /\ signature_for_json(m) = sig
                  /\ \E k \in RepoKeys : found[k].manifest = m]
    /\ packages_cache =
          [sig \in {signature_for_json(found[k].manifest) : k \in RepoKeys} |->
              [path |-> PACKAGE_JSON_SUBDIR \o "/" \o sig \o ".json",
               repos |-> {k \in RepoKeys : signature_for_json(found[k].manifest) = sig}]]
    /\ package_json_repo_index =
          [k \in RepoKeys |->
              build_repo_metadata(IF k = build_repo_key(Item1) THEN Item1 ELSE Item2,
                                  signature_for_json(found[k].manifest))]
    /\ package_lock_docs = Empty
    /\ package_lock_manifest = <<>> /\ package_lock_repo_index = Empty

\* What the two repositories hold upstream: the same manifest, or two.
FoundUpstream ==
    {UpstreamAtStart,
     [UpstreamAtStart EXCEPT ![build_repo_key(Item2)].manifest = MB]}

TwoRunsInit ==
    /\ pc = "idle" /\ step = 0 /\ force = FALSE /\ idx = 1
    /\ manifest = Empty /\ repo_index = Empty /\ packages_repo_index = Empty
    /\ lock_repo_index = Empty /\ pkg_to_lock = Empty
    /\ new_downloads = 0 /\ reused = 0 /\ downloaded = 0 /\ generated = 0
    /\ failures = Empty /\ fetch_calls = Empty /\ npm_calls = Empty
    /\ settled = 0 /\ clean = TRUE /\ baseline = NoBaseline /\ edits = 0
    /\ packages_file = NoFile /\ include_all_flag = FALSE /\ AuditIdle
    /\ UtilsIdle
    /\ packages_cache_older = Empty /\ package_lock_manifest_older = <<>>
    /\ package_lock_cache_pkl = <<>> /\ damage = Intact
    /\ \E found \in FoundUpstream : AfterStep02(found)

TwoRunsNext ==
    \E r \in Runs :
        \/ RunLoads(r)
        \/ RunKeepsOwn(r)
        \/ RunKeepsMapped(r)
        \/ RunGenerates(r)
        \/ RunSaves(r)

SpecTwoRuns == TwoRunsInit /\ [][TwoRunsNext]_vars

\* ------------------------------------------------------------------ claims
Key1 == build_repo_key(Item1)

Key2 == build_repo_key(Item2)

\* The loop of the running step has handled every repository.
LoopOver(st) == pc = "loop" /\ step = st /\ idx > Len(repos)

\* The two repositories carry the same manifest signature in the manifest index.
SameManifestSignature ==
    /\ Key1 \in DOMAIN packages_repo_index /\ Key2 \in DOMAIN packages_repo_index
    /\ packages_repo_index[Key1].signature = packages_repo_index[Key2].signature

\* Some lock entry on disk lists the manifest signature p.
Listed(p) ==
    \E i \in 1..Len(package_lock_manifest) :
        p \in package_lock_manifest[i][2].packageSignatures

\* Repositories for which this run invoked the lock fetch or the generator.
Acquired == DOMAIN fetch_calls \cup DOMAIN npm_calls

SharedLock ==
    /\ Key1 \in DOMAIN lock_repo_index /\ Key2 \in DOMAIN lock_repo_index
    /\ lock_repo_index[Key1].lockSignature = lock_repo_index[Key2].lockSignature
    /\ DHas(manifest, lock_repo_index[Key1].lockSignature)
    /\ packages_repo_index[Key1].signature
          \in DGet(manifest, lock_repo_index[Key1].lockSignature).packageSignatures

\* C1 as stated: in any run of get_package_lock over two repositories with the
\* same manifest signature (here: any run in which nothing failed), both end
\* with the same lockSignature, its entry lists the manifest signature, and
\* fetch/generation is invoked for at most one of them.
C1_AnyRunSharesOneLock ==
    (LoopOver(3) /\ SameManifestSignature /\ failures = Empty)
        => (SharedLock /\ Cardinality(Acquired) <= 1)

\* C1 amended: in a run without force that starts with no lock entry listing the
\* shared manifest signature, once the repository handled first has obtained a
\* lock, both end with the same lockSignature, its entry lists the manifest
\* signature, and neither fetch nor generation is invoked for the second one.
C1_UnforcedRunSharesOneLock ==
    (/\ LoopOver(3) /\ SameManifestSignature
     /\ ~force
     /\ ~Listed(packages_repo_index[Key1].signature)
     /\ Key1 \in DOMAIN lock_repo_index
     /\ lock_repo_index[Key1].packageSignature = packages_repo_index[Key1].signature)
        => (SharedLock /\ Key2 \notin Acquired)

C1_Witness ==
    /\ LoopOver(3) /\ SameManifestSignature /\ ~force
    /\ ~Listed(packages_repo_index[Key1].signature)
    /\ Key1 \in Acquired /\ Key2 \notin Acquired
    /\ SharedLock /\ reused = 1

Quiet == fetch_calls = Empty /\ npm_calls = Empty

\* C2 as stated: a second run of the steps against unchanged upstream content
\* performs no manifest fetch, no lock fetch and no generation, and leaves the
\* signatures of the three indices as the first run left them.
C2_SecondRunIsQuiet ==
    (settled = 2 /\ baseline # NoBaseline)
        => /\ (pc = "loop" => Quiet)
           /\ (pc # "loop" => ~Deviated)

\* C2 amended: when no repository failed in the first run of the two steps, a
\* later run of either step without force, against unchanged upstream content
\* and an undamaged cache, performs no manifest fetch, no lock fetch and no
\* generation, and leaves the indices as the first run left them.
C2_SecondRunIsQuietAfterCleanRun ==
    (settled = 2 /\ baseline # NoBaseline /\ clean)
        => /\ (pc = "loop" => Quiet /\ failures = Empty)
           /\ (pc # "loop" => ~Deviated)

\* Both steps have run again after the first run: step 02 left the indices as
\* they were and the loop of step 03 has reused every repository.
C2_Witness ==
    /\ settled = 2 /\ clean /\ LoopOver(3) /\ ~force
    /\ Quiet /\ reused = Len(repos) /\ Len(repos) = 2

\* C3 as stated: the generator is invoked for a repository only after its lock
\* fetch reported the file missing; after a failed fetch the failure is counted,
\* the generator is not invoked and no index entry is written.
C3_GeneratorOnlyAfterMissing ==
    step = 3 =>
        \A k \in DOMAIN fetch_calls :
            /\ (k \in DOMAIN npm_calls => fetch_calls[k] = "missing")
            /\ (fetch_calls[k] \in FetchErrors =>
                   /\ failure_reason(fetch_calls[k]) \in DOMAIN failures
                   /\ k \notin DOMAIN npm_calls
                   /\ (pc = "loop" =>
                          /\ (k \in DOMAIN lock_repo_index
                                 <=> k \in DOMAIN package_lock_repo_index)
                          /\ (k \in DOMAIN lock_repo_index =>
                                 lock_repo_index[k] = package_lock_repo_index[k])))

\* C4 as stated: a timed-out generation is recorded as a failure of that
\* repository and the run goes on: it is not aborted, and the indices are saved.
C4_TimeoutIsRecorded ==
    \A k \in DOMAIN npm_calls :
        npm_calls[k] = "TimeoutExpired" =>
            /\ pc # "aborted"
            /\ "npm_failed" \in DOMAIN failures


\* C5: when the generator returns nothing for a repository (npm unavailable,
\* non-zero exit, no lock file written), that step of get_package_lock
\* increments npm_failed, writes no lock document and no lock-manifest entry,
\* leaves the lock repo index as it was and moves on to the next repository.
C5_GenerationFailureSkips ==
    [][(/\ step = 3
        /\ \E k \in DOMAIN npm_calls' \ DOMAIN npm_calls : npm_calls'[k] = "None")
       => /\ "npm_failed" \in DOMAIN failures'
          /\ failures'["npm_failed"] =
                (IF "npm_failed" \in DOMAIN failures THEN failures["npm_failed"] ELSE 0) + 1
          /\ package_lock_docs' = package_lock_docs
          /\ manifest' = manifest
          /\ lock_repo_index' = lock_repo_index
          /\ package_lock_manifest' = package_lock_manifest
          /\ package_lock_repo_index' = package_lock_repo_index
          /\ pc' = "loop" /\ idx' = idx + 1]_vars

\* Generation failed for the first repository, whose earlier index entry is
\* still in place, and the loop has gone on to handle the second one.
C5_Witness ==
    /\ LoopOver(3)
    /\ Key1 \in DOMAIN npm_calls /\ npm_calls[Key1] = "None"
    /\ "npm_failed" \in DOMAIN failures
    /\ Key1 \in DOMAIN package_lock_repo_index
    /\ lock_repo_index[Key1] = package_lock_repo_index[Key1]
    /\ Key2 \in Acquired

\* A step of the lock loop that obtained a lock for the current repository,
\* fetched verbatim or generated after the fetch found no lock file.
LockObtained ==
    /\ InLoop(3)
    /\ (downloaded' = downloaded + 1 \/ generated' = generated + 1)
    /\ fetch_calls'[CurKey] \in {"ok", "missing"}

ObtainedSource == IF downloaded' = downloaded + 1 THEN "repository" ELSE "generated"

\* What C6 says apart from the sources of the manifest entry.
LockRecorded ==
    LET meta == lock_repo_index'[CurKey]
        sig == meta.lockSignature
        doc == load_json_document(package_lock_docs', sig)
        entry == DGet(manifest', sig)
    IN  /\ doc # None
        /\ signature_for_json(doc) = sig
        /\ DHas(manifest', sig)
        /\ CurKey \in entry.repos
        /\ packages_repo_index[CurKey].signature \in entry.packageSignatures
        /\ meta.source = ObtainedSource
        /\ (fetch_calls'[CurKey] = "ok" /\ CurKey \notin DOMAIN npm_calls'
               => /\ meta.source = "repository"
                  /\ DictEq(doc, upstream[CurKey].lock))
        /\ (fetch_calls'[CurKey] = "missing" => meta.source = "generated")
        /\ (meta.source = "generated" => npm_calls'[CurKey] = "lock")

\* C6 as stated: after a lock is obtained the document is stored under the
\* signature of its content, the manifest entry holds the repo key and the
\* manifest signature, and the entry's sources and the index entry's source are
\* "repository" for a verbatim fetch, "generated" for a synthesized lock.
C6_SourcesAreTheProvenance ==
    [][LockObtained =>
          /\ LockRecorded
          /\ DGet(manifest', lock_repo_index'[CurKey].lockSignature).sources
                = {ObtainedSource}]_vars

\* C6 amended: as C6, but the entry's sources contain the provenance of this
\* lock (they keep every provenance the same lock content was obtained with),
\* while the repo-index entry's source is exactly that provenance.
C6_SourcesContainTheProvenance ==
    [][LockObtained =>
          /\ LockRecorded
          /\ ObtainedSource
                \in DGet(manifest', lock_repo_index'[CurKey].lockSignature).sources]_vars

\* One repository holds a lock fetched verbatim and the other a generated one.
C6_Witness ==
    /\ LoopOver(3) /\ downloaded = 1 /\ generated = 1
    /\ \E k \in RepoKeys : k \in DOMAIN lock_repo_index
                           /\ lock_repo_index[k].source = "repository"
                           /\ fetch_calls[k] = "ok" /\ k \notin DOMAIN npm_calls
    /\ \E k \in RepoKeys : k \in DOMAIN lock_repo_index
                           /\ lock_repo_index[k].source = "generated"
                           /\ fetch_calls[k] = "missing" /\ npm_calls[k] = "lock"

\* The repository's own cached lock is usable for its current manifest.
OwnLockUsable ==
    /\ CurKey \in DOMAIN lock_repo_index
    /\ lock_repo_index[CurKey].lockSignature # ""
    /\ lock_repo_index[CurKey].packageSignature = packages_repo_index[CurKey].signature
    /\ lock_repo_index[CurKey].lockSignature \in DOMAIN package_lock_docs
    /\ package_lock_docs[lock_repo_index[CurKey].lockSignature] # Corrupt

\* The step kept the repository's own lock: counted as reused, nothing fetched,
\* nothing generated, no index touched.
OwnLockKept ==
    /\ reused' = reused + 1
    /\ fetch_calls' = fetch_calls /\ npm_calls' = npm_calls
    /\ lock_repo_index' = lock_repo_index /\ manifest' = manifest

\* C7: for a repository with a manifest index entry, get_package_lock keeps its
\* own cached lock (no fetch, no generation, counted reused) exactly when force
\* is off, the index entry has a lockSignature recorded for the current manifest
\* signature and the lock document loads; with force on it attempts the fetch.
C7_OwnLockReusedExactlyWhenValid ==
    [][(InLoop(3) /\ HasPackageMeta)
       => /\ (OwnLockKept <=> (~force /\ OwnLockUsable))
          /\ (force => CurKey \in DOMAIN fetch_calls')]_vars

\* A run without force kept one repository's lock and fetched for the other,
\* whose recorded manifest signature is stale or whose lock document is damaged.
C7_Witness ==
    /\ LoopOver(3) /\ ~force /\ reused = 1
    /\ \E k \in RepoKeys :
          /\ k \in DOMAIN fetch_calls
          /\ k \in DOMAIN package_lock_repo_index
          /\ \/ package_lock_repo_index[k].packageSignature
                   # packages_repo_index[k].signature
             \/ package_lock_docs[package_lock_repo_index[k].lockSignature] = Corrupt

\* With force on, both repositories have had their lock fetch attempted although
\* both held a usable lock.
C7_WitnessForce ==
    /\ LoopOver(3) /\ force /\ DOMAIN fetch_calls = RepoKeys
    /\ \A k \in RepoKeys : k \in DOMAIN package_lock_repo_index

\* C8: get_packagesjson fetches a repository's manifest only if its key is not
\* in the manifest repo index or force is set; otherwise it fetches nothing,
\* counts the repository as reused and leaves its index entry unchanged.
C8_FetchOnlyIfNewOrForced ==
    [][InLoop(2)
       => /\ (CurKey \in DOMAIN fetch_calls'
                 <=> (CurKey \notin DOMAIN repo_index \/ force))
          /\ ((CurKey \in DOMAIN repo_index /\ ~force)
                 => /\ reused' = reused + 1
                    /\ repo_index' = repo_index
                    /\ manifest' = manifest
                    /\ package_json_docs' = package_json_docs)]_vars

\* One repository was already indexed and is reused, the other is fetched.
C8_Witness ==
    /\ LoopOver(2) /\ ~force /\ reused = 1
    /\ Cardinality(DOMAIN fetch_calls) = 1
    /\ \E k \in RepoKeys : k \notin DOMAIN fetch_calls
                           /\ repo_index[k] = package_json_repo_index[k]

\* C9: after a successful manifest fetch the document loads under the signature
\* of its content, the manifest entry of that signature has the path
\* package_json/<signature>.json and holds the repo key, and the repo-index entry
\* records the signature with project, repository name, branch and path.
C9_DownloadIsIndexed ==
    [][(InLoop(2) /\ new_downloads' = new_downloads + 1)
       => LET meta == repo_index'[CurKey]
              sig == meta.signature
              doc == load_json_document(package_json_docs', sig)
          IN  /\ doc # None
              /\ DictEq(doc, upstream[CurKey].manifest)
              /\ signature_for_json(doc) = sig
              /\ sig \in DOMAIN manifest'
              /\ manifest'[sig].path = "package_json/" \o sig \o ".json"
              /\ CurKey \in manifest'[sig].repos
              /\ meta.project = CurItem.project
              /\ meta.repositoryName = CurItem.name
              /\ meta.branch = CurItem.branch
              /\ meta.path = CurItem.path]_vars

\* Both repositories were downloaded and share one manifest entry.
C9_Witness ==
    /\ LoopOver(2) /\ new_downloads = 2
    /\ repo_index[Key1].signature = repo_index[Key2].signature
    /\ manifest[repo_index[Key1].signature].repos = {Key1, Key2}

\* C10: when a manifest fetch fails, one failure counter (that of the reason)
\* goes up by one, no document, manifest entry or repo-index entry is written,
\* and the loop moves on: every iteration of the loop hands over to the next
\* repository, so every later repository is processed.
C10_FetchFailureSkips ==
    [][/\ InLoop(2) => (pc' = "loop" /\ idx' = idx + 1)
       /\ (/\ InLoop(2)
           /\ CurKey \in DOMAIN fetch_calls'
           /\ fetch_calls'[CurKey] \in FetchErrors)
          => /\ \E reason \in DOMAIN failures' :
                   /\ failures'[reason] =
                         (IF reason \in DOMAIN failures THEN failures[reason] ELSE 0) + 1
                   /\ \A other \in DOMAIN failures' \ {reason} :
                         other \in DOMAIN failures /\ failures'[other] = failures[other]
                   /\ DOMAIN failures \subseteq DOMAIN failures'
             /\ package_json_docs' = package_json_docs
             /\ manifest' = manifest
             /\ repo_index' = repo_index
             /\ packages_cache' = packages_cache
             /\ package_json_repo_index' = package_json_repo_index]_vars

\* The first repository's fetch failed and the second was still downloaded.
C10_Witness ==
    /\ LoopOver(2)
    /\ Key1 \in DOMAIN fetch_calls /\ fetch_calls[Key1] \in FetchErrors
    /\ Key1 \notin DOMAIN repo_index
    /\ Key2 \in DOMAIN fetch_calls /\ fetch_calls[Key2] = "ok"
    /\ Key2 \in DOMAIN repo_index
    /\ Total(failures) = 1

\* The run of the current step has ended with an error: the ClickException the
\* step raises itself, or an exception that escaped it.
EndedInError == pc \in {"fatal", "aborted"}

\* The repo index the current step maintains, as it stands in memory.
OwnRepoIndex == IF step = 2 THEN repo_index ELSE lock_repo_index

\* There is nothing usable to proceed with.
NothingUsable ==
    \/ repos = <<>>
    \/ step = 3 /\ package_json_repo_index = Empty
    \/ idx > Len(repos) /\ OwnRepoIndex = Empty

\* C11 as stated: get_packagesjson and get_package_lock end with an error only
\* when there is nothing usable (no repository list, no manifest repo index for
\* get_package_lock, or an own repo index still empty after every repository
\* was processed); a run that holds at least one repo-index entry at its end
\* completes normally.
C11_FatalOnlyWhenNothingUsable ==
    /\ (EndedInError => NothingUsable)
    /\ (pc # "loop" /\ step # 0 /\ OwnRepoIndex # Empty => pc = "done")

\* ------------------------------------------------------------ claims on step 04
\* A version written X.Y.Z with one digit per component, and its components.
PlainVersion(text) ==
    /\ Len(text) = 5 /\ text[2] = "." /\ text[4] = "."
    /\ IsDigit(text[1]) /\ IsDigit(text[3]) /\ IsDigit(text[5])

Components(text) == <<DigitValue(text[1]), DigitValue(text[3]), DigitValue(text[5])>>

\* A spec written <prefix>X.Y.Z, and the version after the prefix.
Prefixed(prefix, text) ==
    /\ Len(text) = Len(prefix) + 5
    /\ SubSeq(text, 1, Len(prefix)) = prefix
    /\ PlainVersion(Drop(text, Len(prefix)))

Base(prefix, text) == Components(Drop(text, Len(prefix)))

NotBefore(v, b) ==
    \/ v[1] > b[1]
    \/ v[1] = b[1] /\ (v[2] > b[2] \/ (v[2] = b[2] /\ v[3] >= b[3]))

IsCovered(e) == e.status = "covered" /\ e.covered = "True"

IsNotCovered(e) == e.status = "not_covered" /\ e.covered = "False"

\* Every evaluation of the pair (occurrence string, target string) satisfies P.
Evaluated(current, target, P(_)) ==
    \A i \in 1..Len(evaluations) :
        (evaluations[i].current_spec = current
         /\ evaluations[i].target_version = target) => P(evaluations[i])

\* C12 as stated: with target spec ^2.0.0 the occurrence version 2.3.1 is
\* covered and 3.0.0 and 1.9.9 are not; with target spec ~1.2.0 the occurrence
\* version 1.2.9 is covered and 1.3.0 is not; in general a target ^X.Y.Z covers
\* the occurrence versions >= X.Y.Z of the same major, a target ~X.Y.Z those
\* of the same major and minor.
C12_TargetRangeCoversOccurrence ==
    /\ Evaluated(Texts.v231, Caret(Texts.v200), IsCovered)
    /\ Evaluated(Texts.v300, Caret(Texts.v200), IsNotCovered)
    /\ Evaluated(Texts.v199, Caret(Texts.v200), IsNotCovered)
    /\ Evaluated(Texts.v129, Tilde(Texts.v120), IsCovered)
    /\ Evaluated(Texts.v130, Tilde(Texts.v120), IsNotCovered)
    /\ \A i \in 1..Len(evaluations) :
          LET e == evaluations[i]
              v == Components(e.current_spec)
          IN  /\ (PlainVersion(e.current_spec) /\ Prefixed(<<"^">>, e.target_version)
                    => IF NotBefore(v, Base(<<"^">>, e.target_version))
                          /\ v[1] = Base(<<"^">>, e.target_version)[1]
                       THEN IsCovered(e) ELSE IsNotCovered(e))
              /\ (PlainVersion(e.current_spec) /\ Prefixed(<<"~">>, e.target_version)
                    => IF NotBefore(v, Base(<<"~">>, e.target_version))
                          /\ v[1] = Base(<<"~">>, e.target_version)[1]
                          /\ v[2] = Base(<<"~">>, e.target_version)[2]
                       THEN IsCovered(e) ELSE IsNotCovered(e))

\* C12 amended: evaluate_packages reads the target as a concrete version and the
\* occurrence as the range.  With occurrence ^2.0.0 the target 2.3.1 is covered
\* and 3.0.0 and 1.9.9 are not; with occurrence ~1.2.0 the target 1.2.9 is
\* covered and 1.3.0 is not; an occurrence ^X.Y.Z with X >= 1 covers the targets
\* >= X.Y.Z of the same major, an occurrence ~X.Y.Z those of the same major and
\* minor; a target written as a range is reported invalid_target.
C12_OccurrenceRangeCoversTarget ==
    /\ Evaluated(Caret(Texts.v200), Texts.v231, IsCovered)
    /\ Evaluated(Caret(Texts.v200), Texts.v300, IsNotCovered)
    /\ Evaluated(Caret(Texts.v200), Texts.v199, IsNotCovered)
    /\ Evaluated(Tilde(Texts.v120), Texts.v129, IsCovered)
    /\ Evaluated(Tilde(Texts.v120), Texts.v130, IsNotCovered)
    /\ \A i \in 1..Len(evaluations) :
          LET e == evaluations[i]
              t == Components(e.target_version)
          IN  /\ (Prefixed(<<"^">>, e.current_spec) /\ PlainVersion(e.target_version)
                  /\ Base(<<"^">>, e.current_spec)[1] >= 1
                    => IF NotBefore(t, Base(<<"^">>, e.current_spec))
                          /\ t[1] = Base(<<"^">>, e.current_spec)[1]
                       THEN IsCovered(e) ELSE IsNotCovered(e))
              /\ (Prefixed(<<"~">>, e.current_spec) /\ PlainVersion(e.target_version)
                    => IF NotBefore(t, Base(<<"~">>, e.current_spec))
                          /\ t[1] = Base(<<"~">>, e.current_spec)[1]
                          /\ t[2] = Base(<<"~">>, e.current_spec)[2]
                       THEN IsCovered(e) ELSE IsNotCovered(e))
              /\ (Prefixed(<<"^">>, e.target_version) \/ Prefixed(<<"~">>, e.target_version)
                    => e.status = "invalid_target" /\ e.covered = "None")

\* The occurrence ^2.0.0 has been evaluated against the target 2.3.1.
C12_Witness ==
    \E i \in 1..Len(evaluations) :
        /\ evaluations[i].current_spec = Caret(Texts.v200)
        /\ evaluations[i].target_version = Texts.v231
        /\ IsCovered(evaluations[i])

\* The range an occurrence string <op>X.Y.Z stands for, said directly: ^ keeps
\* the leftmost non-zero component, ~ keeps major and minor, >= and < compare.
RangeShaped(text) ==
    \/ Prefixed(<<"^">>, text) \/ Prefixed(<<"~">>, text)
    \/ Prefixed(<<">", "=">>, text) \/ Prefixed(<<"<">>, text)

InsideRange(text, t) ==
    IF Prefixed(<<"^">>, text)
    THEN LET b == Base(<<"^">>, text)
         IN  /\ NotBefore(t, b)
             /\ t[1] = b[1]
             /\ (b[1] = 0 => t[2] = b[2])
             /\ (b[1] = 0 /\ b[2] = 0 => t[3] = b[3])
    ELSE IF Prefixed(<<"~">>, text)
    THEN LET b == Base(<<"~">>, text)
         IN  NotBefore(t, b) /\ t[1] = b[1] /\ t[2] = b[2]
    ELSE IF Prefixed(<<">", "=">>, text)
    THEN NotBefore(t, Base(<<">", "=">>, text))
    ELSE ~NotBefore(t, Base(<<"<">>, text))

\* C13: when the occurrence records a range and the target is a concrete
\* version, the evaluation is covered exactly when the target lies inside the
\* occurrence's range and not_covered otherwise; occurrence ^1.3.0 with target
\* 1.3.0 is covered, occurrence ^3.0.0 with target 2.0.0 is not_covered.
C13_CoveredIffTargetInsideRange ==
    /\ Evaluated(Caret(Texts.v130), Texts.v130, IsCovered)
    /\ Evaluated(Caret(Texts.v300), Texts.v200, IsNotCovered)
    /\ \A i \in 1..Len(evaluations) :
          LET e == evaluations[i]
          IN  RangeShaped(e.current_spec) /\ PlainVersion(e.target_version)
                => IF InsideRange(e.current_spec, Components(e.target_version))
                   THEN IsCovered(e) ELSE IsNotCovered(e)

\* The lock of the tests has been evaluated against left-pad@1.3.0 and
\* bar@2.0.0: one range holds its target, the other does not.
C13_Witness ==
    /\ \E i \in 1..Len(evaluations) :
          /\ evaluations[i].name = "left-pad"
          /\ evaluations[i].current_spec = Caret(Texts.v130)
          /\ evaluations[i].target_version = Texts.v130
          /\ IsCovered(evaluations[i])
    /\ \E i \in 1..Len(evaluations) :
          /\ evaluations[i].name = "bar"
          /\ evaluations[i].current_spec = Caret(Texts.v300)
          /\ evaluations[i].target_version = Texts.v200
          /\ IsNotCovered(evaluations[i])

\* The occurrence string is neither a range nor a version; the target string
\* is not a version.
UnparsedCurrent(e) == ~safe_npmspec(e.current_spec).ok /\ ~safe_version(e.current_spec).ok

UnparsedTarget(e) == ~safe_version(e.target_version).ok

Unset(e, status) == e.status = status /\ e.covered = "None"

\* C14 as stated: an occurrence that cannot be parsed, against any target,
\* yields invalid_current; a target that cannot be parsed yields
\* invalid_target; the covered field is unset in both cases.
C14_InvalidCurrentAgainstAnyTarget ==
    \A i \in 1..Len(evaluations) :
        LET e == evaluations[i]
        IN  e.target_version # NoText
              => /\ (UnparsedCurrent(e) => Unset(e, "invalid_current"))
                 /\ (UnparsedTarget(e) => Unset(e, "invalid_target"))

\* C14 amended: the target is looked at first.  A target that is not a version
\* yields invalid_target whatever the occurrence is; an occurrence that cannot
\* be parsed yields invalid_current when its target is a version; covered is
\* unset in both cases, and covered or not_covered is reported only when the
\* target is a version and the occurrence is a range or a version.
C14_TargetFirstThenCurrent ==
    \A i \in 1..Len(evaluations) :
        LET e == evaluations[i]
        IN  e.target_version # NoText
              => /\ (UnparsedTarget(e) => Unset(e, "invalid_target"))
                 /\ (~UnparsedTarget(e) /\ UnparsedCurrent(e)
                       => Unset(e, "invalid_current"))
                 /\ (e.status \in {"covered", "not_covered"} \/ e.covered # "None"
                       => ~UnparsedTarget(e) /\ ~UnparsedCurrent(e))

\* "file:../local" has been evaluated against the version 1.3.0.
C14_Witness ==
    \E i \in 1..Len(evaluations) :
        /\ evaluations[i].current_spec = Texts.vLocal
        /\ evaluations[i].target_version = Texts.v130
        /\ Unset(evaluations[i], "invalid_current")

NoTargetRow(row) == row.status = "no_target"

\* C15 as stated: a row with status no_target is produced only when the audit
\* was asked, by --include-all, to include all packages.
C15_NoTargetOnlyWhenAsked ==
    \A i \in 1..Len(rows) : NoTargetRow(rows[i]) => include_all_flag

\* C15 amended: a row with status no_target is produced only when --include-all
\* was given or the targets file gave no target at all, in which case run turns
\* include_all on by itself; an audit with targets and without the option emits
\* rows of targeted packages only, none of them no_target.
C15_NoTargetOnlyWhenAllIncluded ==
    /\ \A i \in 1..Len(rows) :
          NoTargetRow(rows[i]) => include_all_flag \/ targets_idx = Empty
    /\ (~include_all_flag /\ targets_idx # Empty
          => \A i \in 1..Len(rows) :
                /\ rows[i].package_name \in DOMAIN targets_idx
                /\ ~NoTargetRow(rows[i]))

\* A finished audit with targets and --include-all: rows of targeted packages
\* next to no_target rows.
C15_Witness ==
    /\ audit_pc = "done" /\ include_all_flag /\ targets_idx # Empty
    /\ \E i \in 1..Len(rows) : NoTargetRow(rows[i])
    /\ \E i \in 1..Len(rows) : rows[i].status = "covered"

\* run has finished over a cache that holds one repository, whose lock is the
\* document of the tests, with the one target line left-pad@1.3.0.
LeftPadAudited ==
    /\ audit_pc = "done"
    /\ packages_file = LeftPadTarget /\ ~include_all_flag
    /\ DOMAIN package_lock_repo_index = {Key1}
    /\ load_json_document(package_lock_docs,
                          package_lock_repo_index[Key1].lockSignature) = TestLock

ReportRows(name, entry_type) ==
    {i \in 1..Len(report) :
        report[i].package_name = name /\ report[i].entry_type = entry_type}

\* C16: for one repository whose lock declares the root dependency
\* left-pad@^1.3.0 resolved at node_modules/left-pad version 1.3.0, with the
\* target line left-pad@1.3.0, the report has exactly one left-pad row of entry
\* type dependency, with status covered and covered=true, and exactly one
\* installed row, that of the resolved package; each row carries the
\* repository's repo key and lock signature.
C16_LeftPadEndToEnd ==
    LeftPadAudited
      => /\ Cardinality(ReportRows("left-pad", "dependency")) = 1
         /\ \A i \in ReportRows("left-pad", "dependency") :
               /\ report[i].status = "covered" /\ report[i].covered = "true"
               /\ report[i].current_spec = Caret(Texts.v130)
               /\ report[i].package_path = "."
         /\ Cardinality({i \in 1..Len(report) : report[i].entry_type = "installed"}) = 1
         /\ \A i \in 1..Len(report) :
               report[i].entry_type = "installed"
                 => /\ report[i].package_name = "left-pad"
                    /\ report[i].package_path = "node_modules/left-pad"
                    /\ report[i].current_spec = Texts.v130
         /\ Len(report) = 2
         /\ \A i \in 1..Len(report) :
               /\ report[i].repo_key = Key1
               /\ report[i].lock_signature = StoredLocks[1].signature
               /\ report[i].lock_signature = package_lock_repo_index[Key1].lockSignature
               /\ report[i].target_version = Texts.v130

\* The audit of the tests' lock against left-pad@1.3.0 has written its report.
C16_Witness == LeftPadAudited /\ ReportRows("left-pad", "dependency") # {}

\* The paths at which flat_packages holds an occurrence of the given name,
\* version and entry type, and the positions of those occurrences.
Positions(name, entry_type) ==
    {i \in 1..Len(flat_packages) :
        flat_packages[i].name = name /\ flat_packages[i].entry_type = entry_type}

PathsOf(name, entry_type) ==
    {flat_packages[i].path : i \in Positions(name, entry_type)}

Holds(name, version, path, entry_type) ==
    \E i \in 1..Len(flat_packages) :
        flat_packages[i] = Occurrence(name, version, path, entry_type)

\* C17: a nested lock with P at the root, under Q and under Q/R flattens to
\* three installed occurrences of P, at node_modules/P,
\* node_modules/Q/node_modules/P and node_modules/Q/node_modules/R/node_modules/P,
\* none collapsed; each requires entry is a dependency occurrence at the path of
\* the package that requires it.
C17_NestedOccurrencesAllKept ==
    loaded_lock = NestedLock
      => /\ Cardinality(Positions("P", "installed")) = 3
         /\ PathsOf("P", "installed") =
               {"node_modules/P", "node_modules/Q/node_modules/P",
                "node_modules/Q/node_modules/R/node_modules/P"}
         /\ Holds("P", Caret(Texts.v130), "node_modules/Q", "dependency")
         /\ Holds("R", Tilde(Texts.v120), "node_modules/Q", "dependency")
         /\ Holds("P", Caret(Texts.v130), "node_modules/Q/node_modules/R", "dependency")
         /\ PathsOf("P", "dependency") =
               {"node_modules/Q", "node_modules/Q/node_modules/R"}
         /\ PathsOf("R", "dependency") = {"node_modules/Q"}
         /\ Cardinality(Positions("P", "dependency")) = 2

\* The nested lock has been flattened.
C17_Witness ==
    /\ loaded_lock = NestedLock
    /\ Holds("P", Texts.v130, "node_modules/Q/node_modules/R/node_modules/P", "installed")

\* The occurrences of a sequence, as a set.
Tuples(occurrences) == {occurrences[i] : i \in 1..Len(occurrences)}

\* C18: flatten_package_lock_content merges two occurrences exactly when they
\* agree on name, version, path and entry type: its output holds every
\* distinct tuple of the flattened input exactly once, so occurrences of one
\* name that differ in path, version or entry type are all kept.
C18_OnlyExactDuplicatesMerged ==
    audited_repos # {}
      => LET flat == raw_occurrences(loaded_lock)
         IN  /\ Tuples(flat_packages) = Tuples(flat)
             /\ \A i, j \in 1..Len(flat_packages) :
                   flat_packages[i] = flat_packages[j] => i = j
             /\ \A p, q \in Tuples(flat) :
                   p # q => \E i, j \in 1..Len(flat_packages) :
                               i # j /\ flat_packages[i] = p /\ flat_packages[j] = q

\* A lock whose flattening repeats a tuple has been flattened: the repeat is
\* gone, and three different occurrences of P are side by side.
C18_Witness ==
    /\ audited_repos # {}
    /\ Len(raw_occurrences(loaded_lock)) > Len(flat_packages)
    /\ Cardinality({p \in Tuples(flat_packages) : p.name = "P"}) = 3

\* The lock that was flattened is of the flat generation; its packages map.
PackagesMap == dict_get(loaded_lock, "packages").d

FlatGeneration ==
    /\ audited_repos # {}
    /\ dict_get(loaded_lock, "packages").t = "dict" /\ PackagesMap # <<>>

EntryPath(package_path) == IF package_path = <<>> THEN "." ELSE Join(package_path)

At(path, entry_type) ==
    {n \in 1..Len(flat_packages) :
        flat_packages[n].path = path /\ flat_packages[n].entry_type = entry_type}

MapTags ==
    {<<"dependencies", "dependency">>, <<"peerDependencies", "peer">>,
     <<"devDependencies", "dev">>, <<"optionalDependencies", "optional">>}

Pairs(pkg_info, key) ==
    IF dict_get(pkg_info, key).t = "dict" THEN dict_get(pkg_info, key).d ELSE <<>>

PairCount(pkg_info) ==
    Len(Pairs(pkg_info, "dependencies")) + Len(Pairs(pkg_info, "peerDependencies"))
    + Len(Pairs(pkg_info, "devDependencies")) + Len(Pairs(pkg_info, "optionalDependencies"))

RECURSIVE OccurrenceCount(_)
OccurrenceCount(packages) ==
    IF packages = <<>> THEN 0
    ELSE 1 + PairCount(Head(packages)[2].d) + OccurrenceCount(Tail(packages))

\* C19: in the flat generation every entry of the packages map yields one
\* installed occurrence whose path is the entry's installation path ("." for
\* the empty root key, named by the entry's name), and every name/spec pair of
\* its dependencies, peerDependencies, devDependencies and
\* optionalDependencies maps yields one occurrence whose path is the declaring
\* entry's path and whose entry type is the tag of that map; nothing else is
\* emitted.
C19_FlatEntriesAndTaggedPairs ==
    FlatGeneration
      => /\ \A i \in 1..Len(PackagesMap) :
               LET package_path == PackagesMap[i][1]
                   pkg_info == PackagesMap[i][2].d
               IN  /\ Cardinality(At(EntryPath(package_path), "installed")) = 1
                   /\ \A n \in At(EntryPath(package_path), "installed") :
                         /\ (dict_get(pkg_info, "name").t = "str"
                               => flat_packages[n].name = Join(dict_get(pkg_info, "name").s))
                         /\ (dict_get(pkg_info, "version").t = "str"
                               => flat_packages[n].version = dict_get(pkg_info, "version").s)
                   /\ \A tag \in MapTags :
                         \A j \in 1..Len(Pairs(pkg_info, tag[1])) :
                            LET pair == Pairs(pkg_info, tag[1])[j]
                                found == {n \in At(EntryPath(package_path), tag[2]) :
                                             flat_packages[n].name = pair[1]}
                            IN  /\ Cardinality(found) = 1
                                /\ \A n \in found :
                                      pair[2].t = "str" => flat_packages[n].version = pair[2].s
         /\ Len(flat_packages) = OccurrenceCount(PackagesMap)
         /\ (loaded_lock = TestLock
               => /\ Holds("demo", Texts.v100, ".", "installed")
                  /\ Holds("left-pad", Caret(Texts.v130), ".", "dependency")
                  /\ Holds("left-pad", Texts.v130, "node_modules/left-pad", "installed")
                  /\ Holds("bar", Caret(Texts.v300), "node_modules/foo", "peer"))

\* A flat lock with pairs in every kind of dependency map has been flattened.
C19_Witness ==
    /\ FlatGeneration
    /\ Holds("pkg", Caret(Texts.v200), ".", "dependency")
    /\ Holds("tool", Caret(Texts.v200), ".", "dev")
    /\ Holds("opt", Unknown, ".", "optional")
    /\ Holds("pkg", Caret(Texts.v200), "node_modules/pkg/node_modules/tool", "peer")
    /\ Holds("pkg", Texts.v231, "node_modules/pkg", "installed")

\* The entries of the packages map under the empty root key.
RootEntries == {i \in 1..Len(PackagesMap) : PackagesMap[i][1] = <<>>}

Named(pkg_info) == dict_get(pkg_info, "name").t = "str"

\* C20 as stated: the entry under the empty root key is not emitted as an
\* installed occurrence; it is recorded as an occurrence of entry type root
\* when it carries a name.
C20_RootKeyRecordedAsRoot ==
    FlatGeneration
      => \A i \in RootEntries :
            /\ At(".", "installed") = {}
            /\ (Named(PackagesMap[i][2].d)
                  => \E n \in At(".", "root") :
                        flat_packages[n].name = Join(dict_get(PackagesMap[i][2].d, "name").s))

\* C20 amended: the entry under the empty root key is emitted like every other
\* entry, as one installed occurrence at path ".", named by its name or
\* "<root>" when it has none; the flat generation yields no occurrence of entry
\* type root.
C20_RootKeyEmittedAsInstalled ==
    FlatGeneration
      => /\ \A i \in RootEntries :
               /\ Cardinality(At(".", "installed")) = 1
               /\ \A n \in At(".", "installed") :
                     flat_packages[n].name =
                        IF Named(PackagesMap[i][2].d)
                        THEN Join(dict_get(PackagesMap[i][2].d, "name").s)
                        ELSE "<root>"
         /\ \A n \in 1..Len(flat_packages) : flat_packages[n].entry_type # "root"

\* The lock of the tests, whose root entry is named demo, has been flattened.
C20_Witness ==
    /\ FlatGeneration /\ loaded_lock = TestLock
    /\ Holds("demo", Texts.v100, ".", "installed")

EntryTypesOf(occurrences) == {occurrences[i].entry_type : i \in 1..Len(occurrences)}

\* C21 as stated: every occurrence produced by flattening, and every audit row,
\* has an entry type among installed, dependency, devDependency,
\* peerDependency, optionalDependency and root.
C21_EntryTypesSpelledOut ==
    /\ EntryTypesOf(flat_packages) \subseteq
          {"installed", "dependency", "devDependency", "peerDependency",
           "optionalDependency", "root"}
    /\ EntryTypesOf(rows) \subseteq
          {"installed", "dependency", "devDependency", "peerDependency",
           "optionalDependency", "root"}

\* C21 amended: every occurrence produced by flattening, and every audit row
\* and report row, has an entry type among installed, dependency, dev, peer,
\* optional and root.
C21_EntryTypesAsTagged ==
    /\ EntryTypesOf(flat_packages) \subseteq
          {"installed", "dependency", "dev", "peer", "optional", "root"}
    /\ EntryTypesOf(rows) \subseteq
          {"installed", "dependency", "dev", "peer", "optional", "root"}
    /\ EntryTypesOf(report) \subseteq
          {"installed", "dependency", "dev", "peer", "optional", "root"}

\* A lock with pairs in every kind of dependency map has been flattened and
\* audited.
C21_Witness ==
    /\ {"installed", "dependency", "dev", "peer", "optional"} \subseteq EntryTypesOf(flat_packages)
    /\ {"dev", "peer"} \subseteq EntryTypesOf(rows)

\* What one line of the targets file contributes, said directly: the text
\* before its last @ and the text after it, both without surrounding blanks.
LastAt(l) == CHOOSE k \in 1..Len(l) : l[k] = "@" /\ \A j \in (k + 1)..Len(l) : l[j] # "@"

IsTargetLine(line) ==
    LET l == Strip(line)
    IN  /\ l # <<>> /\ Head(l) # "#"
        /\ \E k \in 1..Len(l) : l[k] = "@"
        /\ Strip(SubSeq(l, 1, LastAt(l) - 1)) # <<>>
        /\ Strip(SubSeq(l, LastAt(l) + 1, Len(l))) # <<>>

NameOfLine(line) == Join(Strip(SubSeq(Strip(line), 1, LastAt(Strip(line)) - 1)))

SpecOfLine(line) == Strip(SubSeq(Strip(line), LastAt(Strip(line)) + 1, Len(Strip(line))))

TargetLinesOf(name) ==
    {i \in 1..Len(packages_file.lines) :
        IsTargetLine(packages_file.lines[i]) /\ NameOfLine(packages_file.lines[i]) = name}

Latest(S) == CHOOSE i \in S : \A j \in S : j <= i

\* C22: the target index holds a package exactly when some non-blank line not
\* beginning with # splits on its last @ into that name and a spec, both
\* non-empty, so a scoped name beginning with @ is kept whole; lines with no @,
\* an empty name or an empty spec contribute nothing; and the spec of a package
\* named by several lines is that of the last one.
C22_TargetIndexFromLastAt ==
    audit_pc # "idle" /\ packages_file.exists
      => /\ DOMAIN targets_idx =
               {NameOfLine(packages_file.lines[i]) :
                   i \in {j \in 1..Len(packages_file.lines) :
                             IsTargetLine(packages_file.lines[j])}}
         /\ \A name \in DOMAIN targets_idx :
               targets_idx[name] =
                  SpecOfLine(packages_file.lines[Latest(TargetLinesOf(name))])
         /\ (packages_file = MixedTargets
               => /\ DOMAIN targets_idx = {"@scope/pkg", "pkg", "left-pad"}
                  /\ targets_idx["@scope/pkg"] = Texts.v130
                  /\ targets_idx["pkg"] = Texts.v231
                  /\ targets_idx["left-pad"] = Texts.v130)

\* run has built the index of the mixed targets file.
C22_Witness ==
    /\ audit_pc # "idle" /\ packages_file = MixedTargets
    /\ "@scope/pkg" \in DOMAIN targets_idx

\* ------------------------------------------------- claims on cache_utils
\* Two values are the same document: the same scalar, lists of the same
\* documents in the same order, or maps with the same keys and, under each
\* key, the same document, whatever the order of the keys.
KeysOf(pairs) == {pairs[i][1] : i \in 1..Len(pairs)}

RECURSIVE SameDocument(_, _)
SameDocument(a, b) ==
    /\ a.t = b.t /\ a.s = b.s
    /\ IF a.t = "list"
       THEN /\ Len(a.d) = Len(b.d)
            /\ \A i \in 1..Len(a.d) : SameDocument(a.d[i][2], b.d[i][2])
       ELSE IF a.t = "dict"
       THEN /\ KeysOf(a.d) = KeysOf(b.d)
            /\ \A k \in KeysOf(a.d) : SameDocument(ValueOf(a.d, k), ValueOf(b.d, k))
       ELSE TRUE

\* The value is built of maps, lists and JSON scalars only.
RECURSIVE IsJson(_)
IsJson(value) ==
    /\ value.t # "object"
    /\ \A i \in 1..Len(value.d) : IsJson(value.d[i][2])

\* C23: signature_for_json gives the same document the same signature every
\* time, and gives two documents with the same keys and values at every
\* nesting level the same signature whatever the order of their keys.
C23_SignatureIgnoresKeyOrder ==
    signatures # NotCalled /\ IsJson(document) /\ IsJson(twin)
      => /\ signatures[1] = signatures[3]
         /\ signatures[1] # "TypeError"
         /\ (SameDocument(document, twin) => signatures[1] = signatures[2])

\* Two nested documents written with their keys in different orders have been
\* signed.
C23_Witness ==
    /\ signatures # NotCalled /\ IsJson(document) /\ IsJson(twin)
    /\ document # twin /\ SameDocument(document, twin)
    /\ "dependencies" \in KeysOf(document.d)
    /\ signatures[1] = signatures[2]

\* The value with every object json cannot serialise replaced by the string
\* str() gives for it.
RECURSIVE Coerced(_)
Coerced(value) ==
    IF value.t = "object" THEN JStr(value.s)
    ELSE [value EXCEPT !.d = [i \in 1..Len(value.d) |->
                                 <<value.d[i][1], Coerced(value.d[i][2])>>]]

Components3(record) == <<record.id, record.branch, record.path>>

\* C30: build_repo_key gives two records that differ in repository id, branch
\* or manifest path different keys, and gives a record the same key in the
\* manifest step and in the lock step.
C30_RepoKeyInjective ==
    repo_keys # NotCalled
      => /\ repo_keys.step_02 = repo_keys.step_03
         /\ (Components3(records[1]) # Components3(records[2])
               => repo_keys.step_02[1] # repo_keys.step_02[2])

\* ------------------------------------------- claims on caches found on disk
\* A step of the pipeline that is not an iteration of a loop and not a change of
\* the environment: the start of a run of step 02 or step 03.
RunStarts == pc # "loop" /\ edits' = edits

\* C25: whatever is wrong with an index file (its text is not JSON, or it cannot
\* be read at all), the load of the indices at the start of a run raises nothing:
\* the run is never ended by an error there, it goes on with the table a cold
\* cache gives or stops with the message a cold cache gives.
C25_DamagedIndexNeverRaises == [][RunStarts => pc' # "aborted"]_vars

\* A run of step 02 starts on a packages_cache.json that holds documents.
LoadsOlderPackages ==
    /\ RunStarts /\ step' = 2 /\ repos # <<>>
    /\ damage[PACKAGES_MANIFEST_FILE] = ""
    /\ packages_cache_older # Empty

\* A run of step 03 gets as far as a package_lock_manifest.json that holds locks.
LoadsOlderLocks ==
    /\ RunStarts /\ step' = 3 /\ repos # <<>>
    /\ damage[PACKAGES_REPO_INDEX_FILE] = "" /\ package_json_repo_index # Empty
    /\ damage[PACKAGE_LOCK_MANIFEST_FILE] = ""
    /\ \E i \in 1..Len(package_lock_manifest_older) :
          HoldsContent(package_lock_manifest_older[i][2])

\* The migration of step 02: documents stored, entries replaced, the rest kept,
\* nothing fetched, the file rewritten as the table returned.
PackagesMigrated ==
    /\ \A sig \in DOMAIN packages_cache_older :
          /\ load_json_document(package_json_docs', sig) = packages_cache_older[sig]
          /\ sig \in DOMAIN packages_cache'
          /\ packages_cache'[sig] =
                 [path |-> PACKAGE_JSON_SUBDIR \o "/" \o sig \o ".json", repos |-> {}]
    /\ \A sig \in DOMAIN packages_cache :
          sig \in DOMAIN packages_cache' /\ packages_cache'[sig] = packages_cache[sig]
    /\ DOMAIN packages_cache' = DOMAIN packages_cache \cup DOMAIN packages_cache_older
    /\ fetch_calls' = Empty /\ npm_calls' = Empty
    /\ packages_cache_older' = Empty
    /\ pc' = "loop" => manifest' = packages_cache'

\* The same for the lock manifest read by step 03.
LocksMigrated ==
    /\ \A i \in 1..Len(package_lock_manifest_older) :
          LET sig == package_lock_manifest_older[i][1]
              payload == package_lock_manifest_older[i][2]
          IN  HoldsContent(payload) =>
                 /\ load_json_document(package_lock_docs', sig) = payload.content
                 /\ DHas(package_lock_manifest', sig)
                 /\ DGet(package_lock_manifest', sig).path =
                        PACKAGE_LOCK_SUBDIR \o "/" \o sig \o ".json"
                 /\ DGet(package_lock_manifest', sig).repos = {}
    /\ \A i \in 1..Len(package_lock_manifest) :
          /\ DHas(package_lock_manifest', package_lock_manifest[i][1])
          /\ DGet(package_lock_manifest', package_lock_manifest[i][1]) =
                 package_lock_manifest[i][2]
    /\ Len(package_lock_manifest') =
          Len(package_lock_manifest) + Len(package_lock_manifest_older)
    /\ fetch_calls' = Empty /\ npm_calls' = Empty
    /\ package_lock_manifest_older' = <<>>
    /\ pc' = "loop" => manifest' = package_lock_manifest'

\* C26: a load of a manifest index that holds documents under their signatures
\* stores each of them in the document store under that signature, lists it with
\* the path <category>/<signature>.json and no repository, keeps the entries that
\* were structured already, fetches nothing, and leaves on disk the table it
\* returns, with no entry of the older shape.
C26_OlderIndexMigratedOnLoad ==
    [][(LoadsOlderPackages => PackagesMigrated)
       /\ (LoadsOlderLocks => LocksMigrated)]_vars

\* Step 03 runs on the root written before the split after step 02 did: both
\* indices have been migrated and hold the migrated and the structured entries.
C26_Witness ==
    /\ step = 3 /\ pc = "loop" /\ idx = 1
    /\ load_json_document(package_json_docs, "legacy") = LegacyPackage
    /\ {"legacy", "structured"} \subseteq DOMAIN packages_cache
    /\ load_json_document(package_lock_docs, "legacy") = LA
    /\ DHas(package_lock_manifest, "legacy") /\ DHas(package_lock_manifest, "structured")
    /\ packages_cache_older = Empty /\ package_lock_manifest_older = <<>>
    /\ manifest = package_lock_manifest

\* The lock entries of the run in progress and of the manifest on disk.
LockEntries ==
    (IF step = 3 THEN {manifest[i][2] : i \in 1..Len(manifest)} ELSE {})
    \cup {package_lock_manifest[i][2] : i \in 1..Len(package_lock_manifest)}

\* C27 as stated: the sources of every lock entry, however the entry came
\* about, are among "repository", "generated" and "legacy".
C27_SourcesAmongThree ==
    \A entry \in LockEntries : entry.sources \subseteq {"repository", "generated", "legacy"}

\* C27: the sources of every lock entry, however the entry came about, are
\* among "repository", "generated", "legacy" and "migrated"; "migrated" marks a
\* lock taken out of a manifest file that held the lock itself.
C27_SourcesAmongFour ==
    \A entry \in LockEntries :
        entry.sources \subseteq {"repository", "generated", "legacy", "migrated"}

\* A run of step 03 has ended on a manifest that lists a migrated lock which
\* was also downloaded, next to a generated one.
C27_Witness ==
    /\ step = 3 /\ pc = "done"
    /\ \E entry \in LockEntries : entry.sources = {"migrated", "repository"}
    /\ \E entry \in LockEntries : entry.sources = {"migrated"}
    /\ \E entry \in LockEntries : "generated" \in entry.sources

\* Every document the store returns before the step, it returns after it, with
\* the same keys and values.
Kept(store, store_after) ==
    \A sig \in DOMAIN store :
        load_json_document(store, sig) # None =>
            /\ load_json_document(store_after, sig) # None
            /\ DictEq(load_json_document(store_after, sig),
                      load_json_document(store, sig))

\* C28: no step of a run, forced or not, and no migration of an older cache
\* deletes a stored document or puts other content under its signature: what
\* a load of (category, signature) returned once, every later load returns.
\* Damage done to the files from outside is not a step of a run.
C28_StoreIsAppendOnly ==
    [][edits' = edits => /\ Kept(package_json_docs, package_json_docs')
                         /\ Kept(package_lock_docs, package_lock_docs')]_vars

\* A forced run of step 02 has downloaded again, on the root written before
\* the split, a manifest whose document the migration had stored and an earlier
\* run had indexed.
C28_Witness ==
    /\ step = 2 /\ force /\ pc = "loop"
    /\ Key1 \in DOMAIN fetch_calls /\ fetch_calls[Key1] = "ok"
    /\ Key1 \in DOMAIN package_json_repo_index
    /\ "legacy" \in DOMAIN packages_cache
    /\ load_json_document(package_json_docs, "legacy") = LegacyPackage
    /\ load_json_document(package_json_docs, signature_for_json(MA)) = MA

\* ------------------------------------------------------ claims on two runs
BothEnded == \A r \in Runs : runs[r].pc \in {"done", "fatal"}

\* Every entry a run wrote to the lock indices is in the indices on disk.
NothingLost ==
    \A r \in Runs :
        /\ \A k \in DOMAIN runs[r].lock_repo_index :
              k \in DOMAIN package_lock_repo_index
        /\ \A i \in 1..Len(runs[r].manifest) :
              DHas(package_lock_manifest, runs[r].manifest[i][1])

\* No manifest signature had its lock generated by both runs.
GeneratedOnce == runs[1].generated \cap runs[2].generated = {}

\* C29: when two runs of step 03 on one cache root have ended, in whatever
\* order their steps interleaved, every index entry either of them wrote is in
\* the persisted indices, and no manifest signature was missed and generated
\* by both.
C29_IndexUpdatesSerialized == BothEnded => NothingLost /\ GeneratedOnce

\* ------------------------------------------------------------ rows of the audit
\* The rows written for one repository, in the order they were written.
RowsOf(repo_key) == SelectSeq(rows, LAMBDA row : row.repo_key = repo_key)

\* The occurrences run evaluates for one repository: the flattened lock
\* document after filter_packages.
EvaluatedOccurrences(repo_key) ==
    filter_packages(
        flatten_package_lock_content(
            load_json_document(package_lock_docs,
                               package_lock_repo_index[repo_key].lockSignature)),
        targets_idx, include_all)

LockLoads(repo_key) ==
    load_json_document(package_lock_docs,
                       package_lock_repo_index[repo_key].lockSignature) # None

\* C31: when the audit has ended, every entry of the lock repo index whose
\* lockSignature is set and whose lock document loads has exactly one row per
\* evaluated occurrence, in order, each row carrying the entry's project,
\* repository name, branch, manifest path, repo key, lock signature and lock
\* source; an entry whose document is missing or malformed has no row, is
\* listed among the missing locks, and the other entries are audited all the
\* same.
C31_OneRowPerEvaluatedOccurrence ==
    audit_pc = "done"
      => \A repo_key \in DOMAIN package_lock_repo_index :
            LET metadata == package_lock_repo_index[repo_key]
            IN  IF LockLoads(repo_key)
                THEN /\ repo_key \in audited_repos
                     /\ Len(RowsOf(repo_key)) = Len(EvaluatedOccurrences(repo_key))
                     /\ \A i \in 1..Len(RowsOf(repo_key)) :
                           LET row == RowsOf(repo_key)[i]
                               pkg == EvaluatedOccurrences(repo_key)[i]
                           IN  /\ row.package_name = pkg.name
                               /\ row.package_path = pkg.path
                               /\ row.entry_type = pkg.entry_type
                               /\ row.current_spec = pkg.version
                               /\ row.project = metadata.project
                               /\ row.repository = metadata.repositoryName
                               /\ row.branch = metadata.branch
                               /\ row.package_json_path = metadata.path
                               /\ row.lock_signature = metadata.lockSignature
                               /\ row.lock_source = metadata.source
                ELSE /\ RowsOf(repo_key) = <<>>
                     /\ repo_key \notin audited_repos
                     /\ \E i \in 1..Len(missing_locks) : missing_locks[i] = repo_key

\* An audit has ended in which one entry's document did not load and the
\* other entry gave more than one row.
C31_Witness ==
    /\ audit_pc = "done"
    /\ \E missing, audited \in DOMAIN package_lock_repo_index :
          /\ ~LockLoads(missing) /\ LockLoads(audited)
          /\ package_lock_repo_index[missing].lockSignature \in DOMAIN package_lock_docs
          /\ Len(RowsOf(audited)) > 1

\* ------------------------------------------------------------ covered and status
Statuses == {"covered", "not_covered", "invalid_current", "invalid_target", "no_target"}

Undecided == {"invalid_current", "invalid_target", "no_target"}

\* What evaluate_packages was called with in the last iteration of the loop.
selected_packages == filter_packages(flat_packages, targets_idx, include_all)

\* C36: in every result of evaluate_packages the status is one of the five
\* words, covered is true exactly for status covered, false exactly for
\* not_covered and unset exactly for invalid_current, invalid_target and
\* no_target; the report writes covered as true, false or the empty cell in
\* the same agreement; and evaluate_packages returns one result per occurrence
\* it was given, in the order given.
C36_CoveredAgreesWithStatus ==
    /\ \A i \in 1..Len(evaluations) :
          /\ evaluations[i].status \in Statuses
          /\ evaluations[i].covered \in {"True", "False", "None"}
          /\ evaluations[i].covered = "True" <=> evaluations[i].status = "covered"
          /\ evaluations[i].covered = "False" <=> evaluations[i].status = "not_covered"
          /\ evaluations[i].covered = "None" <=> evaluations[i].status \in Undecided
    /\ \A i \in 1..Len(report) :
          /\ report[i].status \in Statuses
          /\ report[i].covered \in {"true", "false", ""}
          /\ report[i].covered = "true" <=> report[i].status = "covered"
          /\ report[i].covered = "false" <=> report[i].status = "not_covered"
          /\ report[i].covered = "" <=> report[i].status \in Undecided
    /\ Len(evaluations) = Len(selected_packages)
    /\ \A i \in 1..Len(evaluations) :
          /\ evaluations[i].name = selected_packages[i].name
          /\ evaluations[i].current_spec = selected_packages[i].version
          /\ evaluations[i].path = selected_packages[i].path
          /\ evaluations[i].entry_type = selected_packages[i].entry_type

\* A report has been written with a covered row, a row that is not covered
\* and a row left undecided, from more than one evaluation.
C36_Witness ==
    /\ audit_pc = "done" /\ Len(evaluations) > 1
    /\ \E i, j, k \in 1..Len(report) :
          /\ report[i].covered = "true" /\ report[j].covered = "false"
          /\ report[k].covered = "" /\ report[k].status \in Undecided

\* ------------------------------------------------------------ schema selection
\* A document with one key taken out.
Without(doc, key) == SelectSeq(doc, LAMBDA pair : pair[1] # key)

IsMap(value) == value.t = "dict"

HasPackages(doc) ==
    IsMap(dict_get(doc, "packages")) /\ dict_get(doc, "packages").d # <<>>

HasDependencies(doc) == IsMap(dict_get(doc, "dependencies"))

RootOccurrences(flat) ==
    {i \in 1..Len(flat) : flat[i].entry_type = "root" /\ flat[i].path = "."}

\* C37: the flattened list of a lock document comes from one generation only.
\* With a non-empty packages map it is what the document gives without its
\* dependencies key, so that map contributes nothing; with packages absent,
\* empty or not a map and a dependencies map it is what the document gives
\* without its packages key, with the root occurrence first exactly when the
\* document is named; with neither map it is empty.
C37_OneGenerationOnly ==
    loaded_lock # None
      => /\ flat_packages = flatten_package_lock_content(loaded_lock)
         /\ IF HasPackages(loaded_lock)
            THEN /\ flat_packages =
                       flatten_package_lock_content(Without(loaded_lock, "dependencies"))
                 /\ flat_packages # <<>>
            ELSE IF HasDependencies(loaded_lock)
            THEN /\ flat_packages =
                       flatten_package_lock_content(Without(loaded_lock, "packages"))
                 /\ (RootOccurrences(flat_packages) # {}
                       <=> /\ dict_get(loaded_lock, "name").t = "str"
                           /\ Join(dict_get(loaded_lock, "name").s) # "")
            ELSE flat_packages = <<>>

\* A document with a non-empty packages map and a dependencies map has been
\* flattened.
C37_Witness ==
    /\ loaded_lock # None /\ HasPackages(loaded_lock) /\ HasDependencies(loaded_lock)
    /\ dict_get(loaded_lock, "dependencies").d # <<>>
    /\ flat_packages # <<>>

\* Both other cases: a dependencies map beside packages that are empty or no map.
C37_NestedReached ==
    /\ loaded_lock # None /\ ~HasPackages(loaded_lock) /\ HasDependencies(loaded_lock)
    /\ HasKey(loaded_lock, "packages") /\ flat_packages # <<>>

\* ------------------------------------------------------------ the indices agree
\* The file <subdir>/<signature>.json was written, and it loads unless it was
\* damaged from outside (DocumentDamaged is the only writer of Corrupt).
Loadable(store, signature) ==
    /\ signature \in DOMAIN store
    /\ (store[signature] # Corrupt => load_json_document(store, signature) # None)
    /\ (store[signature] # Corrupt => signature_for_json(store[signature]) = signature)

LockIndexAgrees(repo_key) ==
    LET meta == package_lock_repo_index[repo_key]
    IN  /\ DHas(package_lock_manifest, meta.lockSignature)
        /\ repo_key \in DGet(package_lock_manifest, meta.lockSignature).repos
        /\ meta.packageSignature
              \in DGet(package_lock_manifest, meta.lockSignature).packageSignatures
        /\ meta.source \in DGet(package_lock_manifest, meta.lockSignature).sources
        /\ Loadable(package_lock_docs, meta.lockSignature)

PackageIndexAgrees(repo_key) ==
    LET meta == package_json_repo_index[repo_key]
    IN  /\ meta.signature \in DOMAIN packages_cache
        /\ repo_key \in packages_cache[meta.signature].repos
        /\ Loadable(package_json_docs, meta.signature)

\* C35: starting from an empty cache, after any sequence of runs of steps 02
\* and 03, every entry (r, L, P, s) of the lock repo index has a lock manifest
\* entry L with r among its repos, P among its packageSignatures and s among
\* its sources, and the document (package_lock, L) loads; every entry (r, S)
\* of the manifest repo index has a manifest entry S with r among its repos,
\* and the document (package_json, S) loads.
C35_IndicesAgree ==
    /\ \A repo_key \in DOMAIN package_lock_repo_index : LockIndexAgrees(repo_key)
    /\ \A repo_key \in DOMAIN package_json_repo_index : PackageIndexAgrees(repo_key)

\* Step 03 has ended a later run with the two repositories indexed under
\* different locks, none of them damaged.
C35_Witness ==
    /\ pc = "done" /\ step = 3 /\ edits > 0
    /\ DOMAIN package_lock_repo_index = RepoKeys
    /\ DOMAIN package_json_repo_index = RepoKeys
    /\ \E a, b \in RepoKeys :
          package_lock_repo_index[a].lockSignature
             # package_lock_repo_index[b].lockSignature
    /\ \A k \in RepoKeys :
          load_json_document(package_lock_docs,
                             package_lock_repo_index[k].lockSignature) # None

\* ------------------------------------------------------------ migrated locks
\* Sources a fetch or a generation leaves on a lock entry.
ObtainedSources == {"repository", "generated"}

\* The entries of a lock manifest no fetch, generation or reuse has touched
\* since a migration made them.
OnlyMigrated(m) ==
    {i \in 1..Len(m) : m[i][2].sources # {} /\ m[i][2].sources \subseteq {"migrated", "legacy"}}

MigratedEntriesBare(m) ==
    \A i \in OnlyMigrated(m) : m[i][2].repos = {} /\ m[i][2].packageSignatures = {}

\* No manifest signature is mapped to an entry that only a migration made.
MappingAvoidsMigrated ==
    IF step = 3 /\ pc = "loop"
    THEN /\ MigratedEntriesBare(manifest)
         /\ \A p \in DOMAIN pkg_to_lock :
               \A i \in OnlyMigrated(manifest) : manifest[i][1] # pkg_to_lock[p][1]
    ELSE TRUE

\* The entry a reuse by manifest signature serves has been given the manifest
\* signature, and a source, by a fetch or a generation.
ServedAfterObtained ==
    LET entry == DGet(manifest, pkg_to_lock[CurPackageSignature][1])
    IN  /\ CurPackageSignature \in entry.packageSignatures
        /\ entry.sources \cap ObtainedSources # {}

\* A lock of the pickled cache is stored as a document in this step.
PickleConsulted ==
    \E i \in 1..Len(package_lock_cache_pkl) :
        /\ package_lock_cache_pkl[i][1] \notin DOMAIN package_lock_docs
        /\ package_lock_cache_pkl[i][1] \in DOMAIN package_lock_docs'

\* The lock manifest file gives no entry: it is missing, empty or malformed.
ManifestYieldsNothing ==
    /\ load_index(PACKAGE_LOCK_MANIFEST_FILE, package_lock_manifest) = <<>>
    /\ load_index(PACKAGE_LOCK_MANIFEST_FILE, package_lock_manifest_older) = <<>>

\* C39: an entry made by migrating an older cache has empty repos and
\* packageSignatures, both in the index file and in the run that loaded it,
\* and the mapping from manifest signatures never points at it; a reuse by
\* manifest signature serves an entry only after a fetch or a generation has
\* given that entry the manifest signature; and the pickled cache is read
\* only in a run whose lock manifest file gave no entry.
C39_MigratedLocksNotReused ==
    [][/\ MigratedEntriesBare(package_lock_manifest')
       /\ MappingAvoidsMigrated'
       /\ (LockReuseMapped => ServedAfterObtained)
       /\ (PickleConsulted => ManifestYieldsNothing)]_vars

\* A repository has been served, by the lookup and without a fetch, a lock
\* whose entry a migration made and a fetch later completed.
C39_Witness ==
    /\ step = 3 /\ pc \in {"loop", "done"} /\ reused > 0
    /\ \E k \in DOMAIN lock_repo_index :
          /\ k \notin DOMAIN fetch_calls
          /\ DHas(manifest, lock_repo_index[k].lockSignature)
          /\ "migrated" \in DGet(manifest, lock_repo_index[k].lockSignature).sources
          /\ (k \in DOMAIN package_lock_repo_index
                => package_lock_repo_index[k].lockSignature
                     # lock_repo_index[k].lockSignature)

\* The pickled cache has been migrated beside a lock manifest file that was
\* there but malformed.
C39_PickleReached ==
    /\ step = 3 /\ "pickled" \in DOMAIN package_lock_docs
    /\ \E i \in 1..Len(package_lock_manifest) :
          package_lock_manifest[i][2].sources = {"legacy"}

\* ---------------------------------------- three repositories, one lock content
\* The first repository holds another manifest and has committed the lock npm
\* writes for MA; the two others hold MA and no lock file.
UpstreamShared ==
    (build_repo_key(Item1) :> [manifest |-> MB, lock |-> npm_install(MA)])
    @@ (build_repo_key(Item2) :> [manifest |-> MA, lock |-> None])
    @@ (build_repo_key(Item3) :> [manifest |-> MA, lock |-> None])

\* What step 02 left for the three repositories: every manifest indexed, or
\* the third one missed by a failed fetch; the document of MA intact or
\* damaged on disk since.
SharedStarts == [indexed : {2, 3}, damaged : BOOLEAN]

IndexedItems(start) == SubSeq(<<Item1, Item2, Item3>>, 1, start.indexed)

RECURSIVE PackagesIndexed(_)
PackagesIndexed(items) ==
    IF items = <<>> THEN [manifest |-> Empty, repo_index |-> Empty]
    ELSE LET before == PackagesIndexed(SubSeq(items, 1, Len(items) - 1))
             item == items[Len(items)]
             signature == signature_for_json(UpstreamShared[build_repo_key(item)].manifest)
         IN  [manifest |-> update_manifest_entry(before.manifest, signature,
                                                 build_repo_key(item)),
              repo_index |-> Put(before.repo_index, build_repo_key(item),
                                 build_repo_metadata(item, signature))]

SharedInit ==
    /\ PipelineIdle /\ AuditIdle /\ UtilsIdle
    /\ packages_file = NoFile /\ include_all_flag = FALSE
    /\ repos = <<Item1, Item2, Item3>>
    /\ upstream = UpstreamShared
    /\ package_lock_docs = Empty
    /\ package_lock_manifest = <<>> /\ package_lock_repo_index = Empty
    /\ \E start \in SharedStarts :
          /\ packages_cache = PackagesIndexed(IndexedItems(start)).manifest
          /\ package_json_repo_index = PackagesIndexed(IndexedItems(start)).repo_index
          /\ package_json_docs =
                save_json_document(
                    save_json_document(Empty, signature_for_json(MB), MB),
                    signature_for_json(MA), IF start.damaged THEN Corrupt ELSE MA)

\* Runs of step 03 over that cache.
SharedNext ==
    \/ \E f \in BOOLEAN : StartLock(f)
    \/ LockNoPackageJson
    \/ LockReuseOwn
    \/ LockReuseMapped
    \/ LockDownload
    \/ LockPackageJsonGone
    \/ LockGenerate
    \/ LockGenerateTimeout
    \/ FinishLock

SpecShared == SharedInit /\ [][SharedNext]_vars

\* The first entry of the lock manifest, in its order, that lists the manifest
\* signature.
FirstListing(m, package_signature) ==
    m[CHOOSE i \in 1..Len(m) :
          /\ package_signature \in m[i][2].packageSignatures
          /\ \A j \in 1..(i - 1) : package_signature \notin m[j][2].packageSignatures][1]

\* The source the index entry of the repository at hand is given in this step.
WrittenSource == lock_repo_index'[CurKey].source

ReusedEntry == DGet(manifest, lock_repo_index'[CurKey].lockSignature)

\* C38: in a reuse through the lookup by manifest signature, the source
\* written to the repository's index entry is "repository" if the sources of
\* the reused lock entry contain "repository" and "generated" otherwise,
\* whatever the repository holds upstream, and the reused entry is the first
\* of the lock manifest that lists the manifest signature.
C38_ReuseTakesPreferredSource ==
    [][LockReuseMapped
          => /\ WrittenSource = (IF "repository" \in ReusedEntry.sources
                                  THEN "repository" ELSE "generated")
             /\ lock_repo_index'[CurKey].lockSignature
                  = FirstListing(manifest, CurPackageSignature)]_vars

\* The part of C38 about which entry is reused.
C38_FirstListingReused ==
    [][LockReuseMapped
          => lock_repo_index'[CurKey].lockSignature
               = FirstListing(manifest, CurPackageSignature)]_vars

\* ------------------------------------------------------------ the copy for npm
\* The dependencies of a manifest: <<map, name, spec>>.
DepsOf(content) ==
    UNION {{<<content[i][1], content[i][2].d[j][1], content[i][2].d[j][2]>> :
               j \in 1..Len(content[i][2].d)} :
           i \in {i \in 1..Len(content) : IsDependencyMap(content[i])}}

PrivateScoped(name) == Len(name) > 2 /\ name[1] \in private_scopes /\ name[2] = "/"

KindOf(spec) ==
    IF spec.t # "str" THEN "none"
    ELSE SpecForms[CHOOSE i \in 1..Len(SpecForms) : SpecForms[i].spec = spec.s].kind

Unresolvable == {"path", "git", "url", "workspace"}

Reported(name) == \E i \in 1..Len(fallback.msgs) : name \in fallback.msgs[i].names

\* C32: the copy of the manifest handed to npm holds no dependency of a
\* private scope and no dependency whose spec is a local path, a git, url or
\* workspace specifier, and no workspaces; every dependency removed is named
\* in a warning and the removal of workspaces is warned of; the manifest that
\* was loaded, which is the cached document, is as it was.
C32_UnresolvableDependenciesStripped ==
    fallback.pc = "sanitized"
      => /\ \A dep \in DepsOf(fallback.effective) :
               ~PrivateScoped(dep[2]) /\ KindOf(dep[3]) \notin Unresolvable
         /\ ~HasKey(fallback.effective, "workspaces")
         /\ \A dep \in DepsOf(fallback.document) \ DepsOf(fallback.effective) :
               Reported(dep[2])
         /\ (HasKey(fallback.document, "workspaces")
               => \E i \in 1..Len(fallback.msgs) : fallback.msgs[i].warn = "workspaces")
         /\ fallback.package_content = fallback.document

\* What does hold of the copy: no private scope, no spec that begins, after
\* strip and lower, with one of the seven prefixes; the rest of C32 as stated.
PrefixedSpecsStripped ==
    fallback.pc = "sanitized"
      => /\ \A dep \in DepsOf(fallback.effective) :
               /\ ~PrivateScoped(dep[2])
               /\ dep[3].t = "str"
                     => Head(Lower(Strip(dep[3].s))) \notin invalid_prefixes
         /\ \A dep \in DepsOf(fallback.document) :
               (~PrivateScoped(dep[2])
                /\ (dep[3].t = "str"
                      => Head(Lower(Strip(dep[3].s))) \notin invalid_prefixes))
                 => dep \in DepsOf(fallback.effective)
         /\ ~HasKey(fallback.effective, "workspaces")
         /\ \A dep \in DepsOf(fallback.document) \ DepsOf(fallback.effective) :
               Reported(dep[2])
         /\ fallback.package_content = fallback.document

\* ------------------------------------------------------------ the listing
\* The records received in the pages before the i-th request.
ReceivedBefore(i) == Concat(SubSeq(listing.batches, 1, i - 1))

ListingEnded == listing.pc = "fetched" \/ (listing.pc = "done" /\ listing.requests # <<>>)

\* C33: the requests of fetch_all_repositories are made with skip equal to
\* the number of records received so far and top equal to the page size;
\* every page before the last one is full, the last one is empty or shorter
\* than the page size; the list returned is the pages put end to end, and
\* get_repositories(force=True) stores that list in the repository cache.
C33_PagesInOrderUntilShortPage ==
    /\ Len(listing.requests) = Len(listing.batches)
    /\ \A i \in 1..Len(listing.requests) :
          /\ listing.requests[i].skip = Len(ReceivedBefore(i))
          /\ listing.requests[i].top = listing.page_size
    /\ \A i \in 1..(Len(listing.batches) - 1) :
          Len(listing.batches[i]) = listing.page_size
    /\ listing.aggregated = Concat(listing.batches)
    /\ (listing.pc = "paging" /\ listing.batches # <<>>
          => Len(listing.batches[Len(listing.batches)]) = listing.page_size)
    /\ (ListingEnded => Len(listing.batches[Len(listing.batches)]) < listing.page_size)
    /\ (listing.pc = "done" /\ listing.force
          => /\ listing.cache_file = "list"
             /\ repos = Concat(listing.batches)
             /\ listing.returned = List(Concat(listing.batches)))

\* The forced refresh of the tests: page size 1, two records, three requests.
C33_Witness ==
    /\ listing.pc = "done" /\ listing.force /\ listing.page_size = 1
    /\ listing.requests = <<[skip |-> 0, top |-> 1], [skip |-> 1, top |-> 1],
                            [skip |-> 2, top |-> 1]>>
    /\ repos = <<Item1, Item2>>

\* C34: get_repositories(force=False) on a repository cache that loads
\* returns the cached list, makes no listing request and leaves the cache as
\* it was; a listing request is made only if force is set or the cache is
\* missing or does not decode.
C34_CacheSparesTheListing ==
    listing.pc # "idle"
      => /\ (~listing.force /\ listing.before.cache_file = "list"
               => /\ listing.pc = "done"
                  /\ listing.returned = List(listing.before.repos)
                  /\ listing.requests = <<>>
                  /\ repos = listing.before.repos)
         /\ (listing.requests # <<>>
               => listing.force \/ listing.before.cache_file \in {"missing", "malformed"})

\* An unforced call has returned a cached list that is not what the code
\* search holds.
C34_Witness ==
    /\ listing.pc = "done" /\ ~listing.force
    /\ listing.returned = List(<<Item3>>)
    /\ listing.remote = <<Item1, Item2>> /\ listing.requests = <<>>

\* C40: get_repositories(force=True) ends with the repository cache holding
\* the aggregate, whatever it is.  A request that fails gives an empty page
\* and ends the loop; after a failure of the first request the cache holds the
\* empty list, whatever it held before, and after a failure of a later request
\* it holds the records received until then.
C40_ForcedRefreshAlwaysOverwrites ==
    /\ (listing.failed
          => /\ listing.batches[Len(listing.batches)] = <<>>
             /\ listing.pc \in {"fetched", "done"})
    /\ (listing.pc = "done" /\ listing.force
          => /\ listing.cache_file = "list"
             /\ repos = listing.aggregated
             /\ listing.returned = List(listing.aggregated)
             /\ (listing.failed /\ Len(listing.requests) = 1 => repos = <<>>)
             /\ (listing.failed /\ Len(listing.requests) > 1
                   => /\ repos # <<>>
                      /\ repos = SubSeq(listing.remote, 1, Len(repos))))

\* A forced call whose first request failed has emptied a cache that held
\* two repositories, although the code search holds records.
C40_Witness ==
    /\ listing.pc = "done" /\ listing.force /\ listing.failed
    /\ Len(listing.requests) = 1
    /\ listing.before = [cache_file |-> "list", repos |-> <<Item1, Item2>>]
    /\ listing.remote # <<>> /\ repos = <<>>

\* A forced call whose second request failed has stored the first page of
\* three records as the list.
C40_TruncatedReached ==
    /\ listing.pc = "done" /\ listing.force /\ listing.failed
    /\ Len(listing.requests) = 2
    /\ Len(listing.remote) = 3 /\ Len(repos) < 3 /\ repos # <<>>

====
